---- MODULE Spec2Model ----
(***************************************************************************)
(* consent-manager: the consent-versioning, audit-chain, enrollment and    *)
(* category subsystem, as implemented by the Express route handlers over   *)
(* the Prisma/PostgreSQL store.                                            *)
(*                                                                         *)
(* Tables are sets of rows; every row carries the id the store assigned.   *)
(* Nullable columns hold <<>> (NULL) or <<v>>, except joinCode, which is a *)
(* string or Null. JSON objects are sequences of <<key, value>> pairs, so  *)
(* that key order, which JSON.stringify keeps and JSONB does not, is part  *)
(* of the value.                                                           *)
(***************************************************************************)
EXTENDS Integers, Sequences, FiniteSets, TLC

\* ------------------------------------------------------------------ bounds

\* Number of requests handled in one behaviour.
MaxOps == 3
\* Last value of the millisecond clock; at MaxClock time stands still.
MaxClock == 1
\* Most categories a stored study starts with where ensureThreeCategories is
\* examined on its own.
MaxStored == 3

\* ---------------------------------------------------------------- universe

Null == "null"
Undefined == "undefined"
None == <<>>
Some(x) == <<x>>

Researchers == {"r1", "r2"}
Participants == {"p1", "p2"}

\* Values a join-code form field can carry (raw, as typed).
RawCodes == {Undefined, " abcd1234 ", "WRONG999", "x"}
\* Codes lib/code.js can draw.
GenCodes == {"GEN00001", "GEN00002"}

\* ------------------------------------------------------- string functions

\* String.prototype.trim on the raw values above.
Trim(s) ==
  CASE s = " abcd1234 " -> "abcd1234"
    [] OTHER -> s

\* String.prototype.toUpperCase on the values above.
ToUpperCase(s) ==
  CASE s = "abcd1234" -> "ABCD1234"
    [] s = " abcd1234 " -> " ABCD1234 "
    [] s = "x" -> "X"
    [] OTHER -> s

\* String.prototype.toLowerCase on the status values.
ToLowerCase(s) ==
  CASE s = "INVITE" -> "invite"
    [] s = "PUBLIC" -> "public"
    [] s = "DRAFT" -> "draft"
    [] OTHER -> s

\* raw.replace(/[^A-Z0-9]/g, "") on upper-cased values.
StripNonAlnum(s) ==
  CASE s = " ABCD1234 " -> "ABCD1234"
    [] OTHER -> s

\* (x || "") for a string-or-undefined/null x.
OrEmptyString(x) == IF x \in {Undefined, Null} THEN "" ELSE x

normCode(raw) == StripNonAlnum(ToUpperCase(OrEmptyString(raw)))

\* lib/strings.js slugify, on the titles used here.
slugify(title) ==
  CASE title = "Sleep Study" -> "sleep-study"
    [] title = "Sleep study" -> "sleep-study"
    [] title = "Diet Study" -> "diet-study"
    [] OTHER -> title

\* ------------------------------------------------------------ JSON, hashes

\* crypto.createHash("sha256").update(body).digest("hex"): collision-free.
Sha256(body) == <<"sha256-hex", body>>

\* Date.prototype.toISOString: one text per millisecond value.
toISOString(t) == <<"iso8601", t>>

\* JSON.stringify of an object: the text lists the members in the object's
\* own key order, so it is the ordered member list.
JSONstringify(obj) == <<"json-text", obj>>

\* PostgreSQL JSONB keeps object keys sorted by length, then bytewise.
\* The keys of receipts and audit details, in that order.
JsonbKeyOrder ==
  << "via", "code", "mime", "size", "slug", "study", "title", "format", "status",
     "allowed", "contact", "granted", "version", "category", "fromSlug", "joinCode",
     "uploadId", "decisions", "fromOwner", "retention", "categoryId", "withdrawal",
     "participant", "default_days", "effective_at", "receipt_hash",
     "pseudonymous_id", "receipt_version" >>

JsonbRank(k) == CHOOSE i \in DOMAIN JsonbKeyOrder : JsonbKeyOrder[i] = k

\* Members whose value is itself an object, or an array of objects.
ObjectKeys == {"study", "participant", "retention"}
ArrayKeys == {"decisions"}

RECURSIVE JsonbInsert(_, _)
JsonbInsert(sorted, m) ==
  IF sorted = <<>> THEN <<m>>
  ELSE IF JsonbRank(m[1]) < JsonbRank(Head(sorted)[1])
       THEN <<m>> \o sorted
       ELSE <<Head(sorted)>> \o JsonbInsert(Tail(sorted), m)

\* What a JSONB column returns for a stored object: the same members, in
\* JSONB key order, at every nesting level.
RECURSIVE Jsonb(_)
Jsonb(obj) ==
  IF obj = <<>> THEN <<>>
  ELSE LET k == Head(obj)[1]
           v == Head(obj)[2]
           w == IF k \in ObjectKeys THEN Jsonb(v)
                ELSE IF k \in ArrayKeys THEN [i \in DOMAIN v |-> Jsonb(v[i])]
                ELSE v
       IN JsonbInsert(Jsonb(Tail(obj)), <<k, w>>)

\* obj without member k.
RECURSIVE JsonOmit(_, _)
JsonOmit(obj, k) ==
  IF obj = <<>> THEN <<>>
  ELSE IF Head(obj)[1] = k THEN JsonOmit(Tail(obj), k)
       ELSE <<Head(obj)>> \o JsonOmit(Tail(obj), k)

JsonGet(obj, k) == obj[CHOOSE i \in DOMAIN obj : obj[i][1] = k][2]

\* -------------------------------------------------------------------- state

VARIABLES
  study,          \* Study rows
  dataCategory,   \* DataCategory rows
  enrollment,     \* Enrollment rows
  consent,        \* Consent rows
  consentChoice,  \* ConsentChoice rows
  auditLog,       \* AuditLog rows
  upload,         \* Upload rows
  nextId,         \* next row id the store hands out
  now,            \* the millisecond clock
  nOps,           \* requests accepted so far
  last,           \* the response to the latest request
  inflight        \* requests between two store calls (overlapping handlers)

vars == << study, dataCategory, enrollment, consent, consentChoice, auditLog, upload, nextId, now, nOps, last, inflight >>

tables == << study, dataCategory, enrollment, consent, consentChoice, auditLog, upload >>

\* The empty database of a fresh deployment.
Init ==
  /\ study = {}
  /\ dataCategory = {}
  /\ enrollment = {}
  /\ consent = {}
  /\ consentChoice = {}
  /\ auditLog = {}
  /\ upload = {}
  /\ nextId = 1
  /\ now = 0
  /\ nOps = 0
  /\ last = [op |-> "none", result |-> "none"]
  /\ inflight = {}

\* A handler that ran to its response.
Done(op, result) ==
  /\ nOps' = nOps + 1
  /\ last' = [op |-> op, result |-> result]
  /\ UNCHANGED inflight

\* A handler that ended with the store as it was: it refused the request
\* before its first write, or its transaction rolled back. Behaviours are
\* followed up to the first such request only.
Refuse(op, result) ==
  /\ nOps' = MaxOps
  /\ last' = [op |-> op, result |-> result]
  /\ UNCHANGED << tables, nextId, now, inflight >>

\* The clock may or may not pass a millisecond boundary while a handler runs.
Delays == IF now < MaxClock THEN {0, 1} ELSE {0}

\* --------------------------------------------------------------- audit log

\* prisma.auditLog.findFirst({where: {studyId}, orderBy: {createdAt: "desc"}}):
\* a row of the study with the greatest createdAt; among equal createdAt the
\* store returns any of them. The result is entryHash, or None for no row.
LatestEntryHashes(log, studyId) ==
  LET rows == {r \in log : r.studyId = studyId}
      newest == {r \in rows : \A q \in rows : q.createdAt <= r.createdAt}
  IN IF rows = {} THEN {None} ELSE {r.entryHash : r \in newest}

\* (prev?.entryHash || "") + action + JSON.stringify(details) + createdAt.toISOString()
AuditBody(prev, action, details, createdAt) ==
  << prev, action, JSONstringify(details), toISOString(createdAt) >>

\* The createdAt the inserted row gets: create() is not given the handler's
\* createdAt, so the column takes DEFAULT CURRENT_TIMESTAMP at insert time.
AuditCreatedAt(hashedAt, insertedAt) == insertedAt

\* The row addAudit inserts; details is a JSONB column.
AuditRow(id, studyId, actorRole, actorId, action, details, prev, hashedAt, insertedAt) ==
  [ id |-> id, studyId |-> studyId, actorRole |-> actorRole, actorId |-> actorId,
    action |-> action, details |-> Jsonb(details), prevHash |-> prev,
    entryHash |-> Sha256(AuditBody(prev, action, details, hashedAt)),
    createdAt |-> AuditCreatedAt(hashedAt, insertedAt) ]

\* An append that rewrites the study's log to hold the new entry alone.
addAuditOverwriting(studyId, actorRole, actorId, action, details, extra) ==
  \E d \in Delays, prev \in LatestEntryHashes(auditLog, studyId) :
    /\ auditLog' = {a \in auditLog : a.studyId # studyId} \cup
         {AuditRow(nextId + extra, studyId, actorRole, actorId, action, details, prev, now, now + d)}
    /\ nextId' = nextId + extra + 1
    /\ now' = now + d

\* An append that is skipped when the actor's action is in the log already.
addAuditOnce(studyId, actorRole, actorId, action, details, extra) ==
  \E d \in Delays, prev \in LatestEntryHashes(auditLog, studyId) :
    /\ auditLog' =
         IF \E a \in auditLog : a.studyId = studyId /\ a.actorId = actorId /\ a.action = action
         THEN auditLog
         ELSE auditLog \cup
                {AuditRow(nextId + extra, studyId, actorRole, actorId, action, details, prev, now, now + d)}
    /\ nextId' = nextId + extra + 1
    /\ now' = now + d

\* addAudit run without interruption: new Date() reads the clock, and the clock
\* may tick before the insert. extra is the number of ids the handler took
\* before the call.
addAudit(studyId, actorRole, actorId, action, details, extra) ==
  \E d \in Delays, prev \in LatestEntryHashes(auditLog, studyId) :
    /\ auditLog' = auditLog \cup
         {AuditRow(nextId + extra, studyId, actorRole, actorId, action, details, prev, now, now + d)}
    /\ nextId' = nextId + extra + 1
    /\ now' = now + d

\* ------------------------------------------------------------------ lookups

\* prisma.study.findUnique({where: {slug}}): the set holding the row, or {}.
StudyBySlug(slug) == {s \in study : s.slug = slug}

\* Slugs a request path can name: the one studies get here, and one of no study.
Slugs == {"sleep-study", "no-such-study"}

\* Rows in row-id order.
RECURSIVE SeqById(_)
SeqById(rows) ==
  IF rows = {} THEN <<>>
  ELSE LET first == CHOOSE r \in rows : \A q \in rows : r.id <= q.id
       IN <<first>> \o SeqById(rows \ {first})

\* study.categories as the store returns them; rows of one createdAt come in
\* row-id order.
Categories(rows, studyId) == SeqById({c \in rows : c.studyId = studyId})

\* ------------------------------------------------------------ create study

\* The contact address every form here carries; retentionDays is left blank.
ContactEmail == "lab@example.org"

\* Creation requests: the session's researcher and the submitted form.
CreateForms ==
  { [owner |-> "r1", title |-> "Sleep Study", status |-> "public", joinCode |-> Undefined, req |-> <<FALSE, TRUE, FALSE>>],
    [owner |-> "r1", title |-> "Sleep Study", status |-> "invite", joinCode |-> " abcd1234 ", req |-> <<FALSE, FALSE, FALSE>>],
    [owner |-> "r1", title |-> "Sleep Study", status |-> "draft", joinCode |-> Undefined, req |-> <<FALSE, FALSE, FALSE>>] }

DefaultNames == <<"Email", "Usage Logs", "Accelerometer">>

\* status === "invite" ? (joinCode?.trim().toUpperCase() || genJoinCode()) : null
EnsureJoin(status, joinCode, gen) ==
  IF status # "invite" THEN Null
  ELSE IF joinCode = Undefined \/ ToUpperCase(Trim(joinCode)) = "" THEN gen
       ELSE ToUpperCase(Trim(joinCode))

StudyRow(id, form, joinCode) ==
  [ id |-> id, ownerId |-> form.owner, slug |-> slugify(form.title), title |-> form.title,
    contactEmail |-> ContactEmail, retentionDefaultDays |-> None,
    status |-> form.status, joinCode |-> joinCode, version |-> 1 ]

\* A create that drops the third category.
CreatedTwoCategories(studyId, form, createdAt) ==
  { [ id |-> studyId + i, studyId |-> studyId, name |-> DefaultNames[i],
      required |-> form.req[i], createdAt |-> createdAt ] : i \in 1..2 }

\* categories: {create: [c1, c2, c3]}
CreatedCategories(studyId, form, createdAt) ==
  { [ id |-> studyId + i, studyId |-> studyId, name |-> DefaultNames[i],
      required |-> form.req[i], createdAt |-> createdAt ] : i \in 1..3 }

\* POST /researcher/studies/new
StudyCreate(form, gen) ==
  /\ nOps < MaxOps
  /\ IF StudyBySlug(slugify(form.title)) # {}
     THEN Refuse("create", "slug_exists")
     ELSE /\ study' = study \cup {StudyRow(nextId, form, EnsureJoin(form.status, form.joinCode, gen))}
          /\ dataCategory' = dataCategory \cup CreatedCategories(nextId, form, now)
          /\ addAudit(nextId, "researcher", form.owner, "STUDY_CREATED", << <<"status", form.status>> >>, 4)
          /\ Done("create", "redirect")
          /\ UNCHANGED << enrollment, consent, consentChoice, upload >>

\* ------------------------------------------------------- enroll / unenroll

\* prisma.enrollment.upsert with update: {} : the row of the pair if there is
\* one, else a new row.
EnrollmentUpsert(rows, id, studyId, participantId) ==
  IF \E e \in rows : e.studyId = studyId /\ e.participantId = participantId
  THEN rows
  ELSE rows \cup {[id |-> id, studyId |-> studyId, participantId |-> participantId]}

\* A gate that lets a request without a code through.
GateOnlyWithCode(s, rawCode) ==
  LET codeSupplied == Trim(OrEmptyString(rawCode))
      codeSet == Trim(OrEmptyString(s.joinCode))
  IN /\ ToLowerCase(s.status) = "invite"
     /\ codeSet # ""
     /\ codeSupplied # ""
     /\ ToUpperCase(codeSupplied) # ToUpperCase(codeSet)

\* A gate that compares the codes whatever the status and the configured code.
GateAnyStudy(s, rawCode) ==
  ToUpperCase(Trim(OrEmptyString(rawCode))) # ToUpperCase(Trim(OrEmptyString(s.joinCode)))

\* The join-code gate of POST /s/:slug/enroll: TRUE when the request is refused.
InvalidJoinCode(s, rawCode) ==
  LET codeSupplied == Trim(OrEmptyString(rawCode))
      codeSet == Trim(OrEmptyString(s.joinCode))
  IN /\ ToLowerCase(s.status) = "invite"
     /\ codeSet # ""
     /\ ToUpperCase(codeSupplied) # ToUpperCase(codeSet)

\* POST /s/:slug/enroll
Enroll(p, slug, rawCode) ==
  /\ nOps < MaxOps
  /\ IF StudyBySlug(slug) = {}
     THEN Refuse("enroll", "404")
     ELSE LET s == CHOOSE x \in StudyBySlug(slug) : TRUE IN
          IF InvalidJoinCode(s, rawCode)
          THEN Refuse("enroll", "invalid_code")
          ELSE /\ enrollment' = EnrollmentUpsert(enrollment, nextId, s.id, p)
               /\ addAudit(s.id, "participant", p, "ENROLLED", << <<"via", "study_page">> >>, 1)
               /\ Done("enroll", "redirect")
               /\ UNCHANGED << study, dataCategory, consent, consentChoice, upload >>

\* A deleteMany with the pair's filter inverted.
EnrollmentKeepOnly(rows, studyId, participantId) ==
  {e \in rows : e.studyId = studyId /\ e.participantId = participantId}

\* prisma.enrollment.deleteMany({where: {studyId, participantId}})
EnrollmentDeleteMany(rows, studyId, participantId) ==
  {e \in rows : ~(e.studyId = studyId /\ e.participantId = participantId)}

\* POST /s/:slug/unenroll
Unenroll(p, slug) ==
  /\ nOps < MaxOps
  /\ IF StudyBySlug(slug) = {}
     THEN Refuse("unenroll", "404")
     ELSE LET s == CHOOSE x \in StudyBySlug(slug) : TRUE IN
          /\ enrollment' = EnrollmentDeleteMany(enrollment, s.id, p)
          /\ addAudit(s.id, "participant", p, "UNENROLLED", << <<"via", "study_page">> >>, 0)
          /\ Done("unenroll", "redirect")
          /\ UNCHANGED << study, dataCategory, consent, consentChoice, upload >>

\* code.length < 4 || code.length > 16
BadCodeFormat(code) == Len(code) < 4 \/ Len(code) > 16

\* Whether POST /participant/join finds study s for the code supplied: the
\* length check on the normalised code, then findFirst on joinCode and status.
JoinAccepts(s, rawCode) ==
  LET code == normCode(rawCode)
  IN /\ ~BadCodeFormat(code)
     /\ s.joinCode = code
     /\ s.status \in {"invite", "public"}

\* POST /participant/join
JoinByCode(p, rawCode) ==
  /\ nOps < MaxOps
  /\ LET code == normCode(rawCode)
         found == {s \in study : JoinAccepts(s, rawCode)}
     IN IF BadCodeFormat(code)
        THEN Refuse("join", "400")
        ELSE IF found = {}
        THEN Refuse("join", "404")
        ELSE \E s \in found :
             /\ enrollment' = EnrollmentUpsert(enrollment, nextId, s.id, p)
             /\ addAudit(s.id, "participant", p, "ENROLLED",
                         << <<"via", "join_code">>, <<"code", code>> >>, 1)
             /\ Done("join", "redirect")
             /\ UNCHANGED << study, dataCategory, consent, consentChoice, upload >>

\* ------------------------------------------------------ consent / withdraw

\* Boolean(v) for a form field.
Boolean(v) == v \notin {Undefined, ""}

\* Request bodies by the fields they tick: position i is the study's i-th
\* category, a position past the study's categories a cat_ field that names
\* no category of the study.
BodyShapes ==
  { <<"on", Undefined, Undefined>>, <<Undefined, Undefined, Undefined>>,
    <<Undefined, Undefined, Undefined, "on">> }

BodyField(shape, i) == IF i \in DOMAIN shape THEN shape[i] ELSE Undefined

\* Decisions exactly as submitted, required or not.
DecisionsAsSubmitted(cats, shape) ==
  [ i \in DOMAIN cats |->
      [categoryId |-> cats[i].id, allowed |-> Boolean(BodyField(shape, i))] ]

\* Decisions read off the body: one for every cat_ field it carries, under
\* id 0 for a field that names no category of the study.
DecisionsOfEveryField(cats, shape) ==
  [ i \in (DOMAIN cats) \cup (DOMAIN shape) |->
      IF i \in DOMAIN cats
      THEN [ categoryId |-> cats[i].id,
             allowed |-> IF cats[i].required THEN TRUE ELSE Boolean(BodyField(shape, i)) ]
      ELSE [ categoryId |-> 0, allowed |-> Boolean(BodyField(shape, i)) ] ]

\* study.categories.map(c => ({categoryId, allowed: c.required ? true : Boolean(body[cat_id])}))
ConsentDecisions(cats, shape) ==
  [ i \in DOMAIN cats |->
      [ categoryId |-> cats[i].id,
        allowed |-> IF cats[i].required THEN TRUE ELSE Boolean(BodyField(shape, i)) ] ]

\* A withdrawal that keeps required categories allowed.
WithdrawOptionalOnly(cats) ==
  [ i \in DOMAIN cats |-> [categoryId |-> cats[i].id, allowed |-> cats[i].required] ]

\* study.categories.map(c => ({categoryId: c.id, allowed: false}))
WithdrawDecisions(cats) ==
  [ i \in DOMAIN cats |-> [categoryId |-> cats[i].id, allowed |-> FALSE] ]

PairRows(rows, studyId, participantId) ==
  {c \in rows : c.studyId = studyId /\ c.participantId = participantId}

\* A previous-row test that overlooks withdrawals.
HasPrevConsentOnly(rows, studyId, participantId) ==
  \E c \in PairRows(rows, studyId, participantId) : c.withdrawnAt = None

\* prev, the result of consent.findFirst for the pair, is not null.
HasPrev(rows, studyId, participantId) == PairRows(rows, studyId, participantId) # {}

\* prev ? prev.version : 1, the increment left out.
PrevVersion(rows, studyId, participantId) ==
  LET mine == PairRows(rows, studyId, participantId)
  IN IF mine = {} THEN 1
     ELSE (CHOOSE c \in mine : \A q \in mine : q.version <= c.version).version

\* prev ? prev.version + 1 : 1, prev being the row of greatest version.
NextVersion(rows, studyId, participantId) ==
  LET mine == PairRows(rows, studyId, participantId)
  IN IF mine = {} THEN 1
     ELSE (CHOOSE c \in mine : \A q \in mine : q.version <= c.version).version + 1

\* decisions.every(d => d.allowed)
GrantedEvery(decisions) == \A i \in DOMAIN decisions : decisions[i].allowed

\* decisions.some(d => d.allowed)
Granted(decisions) == \E i \in DOMAIN decisions : decisions[i].allowed

\* study.categories.find(c => c.id === d.categoryId)?.name || d.categoryId
CategoryLabel(cats, categoryId) ==
  LET at == {j \in DOMAIN cats : cats[j].id = categoryId}
  IN IF at = {} THEN categoryId ELSE cats[CHOOSE j \in at : TRUE].name

\* The receipt body, members in the order the handler writes them.
ReceiptBase(s, cats, p, decisions, effectiveAt, withdrawal) ==
  << <<"receipt_version", 1>>,
     <<"study", << <<"slug", s.slug>>, <<"title", s.title>>,
                   <<"version", s.version>>, <<"contact", s.contactEmail>> >> >>,
     <<"participant", << <<"pseudonymous_id", p>> >> >>,
     <<"decisions", [ i \in DOMAIN decisions |->
                        << <<"category", CategoryLabel(cats, decisions[i].categoryId)>>,
                           <<"allowed", decisions[i].allowed>> >> ]>>,
     <<"retention", << <<"default_days", s.retentionDefaultDays>> >> >>,
     <<"effective_at", effectiveAt>>,
     <<"withdrawal", withdrawal>> >>

\* `sha256:${hash}` with hash the digest of JSON.stringify(base)
ReceiptHash(base) == << "sha256:", Sha256(JSONstringify(base)) >>

\* A Consent row whose withdrawnAt column is left null.
ConsentRowNotWithdrawn(id, s, p, version, granted, withdrawnAt, base) ==
  [ id |-> id, studyId |-> s.id, participantId |-> p, version |-> version,
    granted |-> granted, withdrawnAt |-> None,
    receiptHash |-> ReceiptHash(base),
    receiptJson |-> Jsonb(base \o << <<"receipt_hash", ReceiptHash(base)>> >>) ]

\* The Consent row tx.consent.create writes; receiptJson is a JSONB column.
ConsentRow(id, s, p, version, granted, withdrawnAt, base) ==
  [ id |-> id, studyId |-> s.id, participantId |-> p, version |-> version,
    granted |-> granted, withdrawnAt |-> withdrawnAt,
    receiptHash |-> ReceiptHash(base),
    receiptJson |-> Jsonb(base \o << <<"receipt_hash", ReceiptHash(base)>> >>) ]

\* A write that replaces the pair's rows by the new one.
ConsentReplace(rows, row) ==
  {c \in rows : ~(c.studyId = row.studyId /\ c.participantId = row.participantId)} \cup {row}

\* tx.consent.create: one more row.
ConsentCreate(rows, row) == rows \cup {row}

\* choices: {create: decisions.map(...)}
ChoiceRows(firstId, consentId, decisions) ==
  { [ id |-> firstId + i - 1, consentId |-> consentId,
      categoryId |-> decisions[i].categoryId, allowed |-> decisions[i].allowed ]
    : i \in DOMAIN decisions }

\* The decisions member of the CONSENT_GIVEN / CONSENT_EDITED details.
DecisionsJson(decisions) ==
  [ i \in DOMAIN decisions |->
      << <<"categoryId", decisions[i].categoryId>>, <<"allowed", decisions[i].allowed>> >> ]

\* Where the store can fail inside prisma.$transaction(async tx => ...):
\* at tx.consent.create, at the audit insert, or at the commit.
Faults == {"none", "create", "audit", "commit"}

\* The $transaction block of consent and withdraw. tx.consent.create is part of
\* the transaction; addAudit writes through the global client, outside it: a
\* failed commit rolls the consent and its choices back and keeps the entry.
RecordDecision(op, p, s, version, decisions, granted, withdrawnAt, base, action, details, fault) ==
  LET n == Len(decisions) IN
  CASE fault = "none" ->
         /\ consent' = ConsentCreate(consent, ConsentRow(nextId, s, p, version, granted, withdrawnAt, base))
         /\ consentChoice' = consentChoice \cup ChoiceRows(nextId + 1, nextId, decisions)
         /\ addAudit(s.id, "participant", p, action, details, n + 1)
         /\ Done(op, "saved")
    [] fault = "commit" ->
         /\ addAudit(s.id, "participant", p, action, details, n + 1)
         /\ Done(op, "error")
         /\ UNCHANGED << consent, consentChoice >>
    [] OTHER -> Refuse(op, "error")

\* POST /s/:slug/consent
Consent(p, slug, shape, fault) ==
  /\ nOps < MaxOps
  /\ IF StudyBySlug(slug) = {}
     THEN Refuse("consent", "404")
     ELSE LET s == CHOOSE x \in StudyBySlug(slug) : TRUE
              cats == Categories(dataCategory, s.id)
              decisions == ConsentDecisions(cats, shape)
              version == NextVersion(consent, s.id, p)
              granted == Granted(decisions)
              base == ReceiptBase(s, cats, p, decisions, toISOString(now), None)
              action == IF HasPrev(consent, s.id, p) THEN "CONSENT_EDITED" ELSE "CONSENT_GIVEN"
              details == << <<"version", version>>, <<"granted", granted>>,
                            <<"decisions", DecisionsJson(decisions)>> >>
          IN /\ RecordDecision("consent", p, s, version, decisions, granted, None, base, action, details, fault)
             /\ UNCHANGED << study, dataCategory, enrollment, upload >>

\* POST /s/:slug/withdraw
Withdraw(p, slug, fault) ==
  /\ nOps < MaxOps
  /\ IF StudyBySlug(slug) = {}
     THEN Refuse("withdraw", "404")
     ELSE LET s == CHOOSE x \in StudyBySlug(slug) : TRUE
              cats == Categories(dataCategory, s.id)
              decisions == WithdrawDecisions(cats)
              version == NextVersion(consent, s.id, p)
              nowIso == toISOString(now)
              base == ReceiptBase(s, cats, p, decisions, nowIso, nowIso)
          IN /\ RecordDecision("withdraw", p, s, version, decisions, FALSE, Some(now), base,
                               "WITHDRAWN", << <<"version", version>> >>, fault)
             /\ UNCHANGED << study, dataCategory, enrollment, upload >>

\* ----------------------------------------------------------------- receipts

\* GET /s/:slug/receipt/latest (version = None) and /s/:slug/receipt/:version
ReceiptDownload(p, slug, version) ==
  /\ nOps < MaxOps
  /\ IF StudyBySlug(slug) = {}
     THEN Refuse("receipt", "404")
     ELSE LET s == CHOOSE x \in StudyBySlug(slug) : TRUE
              mine == PairRows(consent, s.id, p)
              found == IF version = None
                       THEN {c \in mine : \A q \in mine : q.version <= c.version}
                       ELSE {c \in mine : c.version = version[1]}
          IN IF found = {}
             THEN Refuse("receipt", "404")
             ELSE \E c \in found :
                  /\ addAudit(s.id, "participant", p, "RECEIPT_DOWNLOADED",
                              << <<"version", c.version>>, <<"format", "pdf">> >>, 0)
                  /\ Done("receipt", "pdf")
                  /\ UNCHANGED << study, dataCategory, enrollment, consent, consentChoice, upload >>

\* ------------------------------------------------------------------ uploads

\* The file every upload request here carries (req.file).
File == [mime |-> "text/csv", size |-> 10]

\* A gate that lets every upload through.
UploadAlways(category, latest) == TRUE

\* category.required || (latest && latest.choices.find(ch => ch.categoryId === categoryId && ch.allowed))
UploadAllowed(category, latest) ==
  \/ category.required
  \/ \E c \in latest : \E ch \in consentChoice :
       ch.consentId = c.id /\ ch.categoryId = category.id /\ ch.allowed

\* POST /s/:slug/upload; pos is the position of the chosen category in the
\* study's list, 0 for an id of no category of the study; safe is the verdict
\* of checkFileSafety.
Upload(p, slug, pos, safe) ==
  /\ nOps < MaxOps
  /\ IF StudyBySlug(slug) = {}
     THEN Refuse("upload", "404")
     ELSE LET s == CHOOSE x \in StudyBySlug(slug) : TRUE
              cats == Categories(dataCategory, s.id)
              mine == PairRows(consent, s.id, p)
              newest == {c \in mine : \A q \in mine : q.version <= c.version}
          IN IF pos \notin DOMAIN cats
             THEN Refuse("upload", "400")
             ELSE \E latest \in (IF newest = {} THEN {{}} ELSE {{c} : c \in newest}) :
                  IF ~UploadAllowed(cats[pos], latest)
                  THEN Refuse("upload", "403")
                  ELSE IF ~safe
                  THEN Refuse("upload", "415")
                  ELSE /\ upload' = upload \cup
                            {[ id |-> nextId, studyId |-> s.id, participantId |-> p,
                               categoryId |-> cats[pos].id, mime |-> File.mime,
                               sizeBytes |-> File.size, deletedAt |-> None ]}
                       /\ addAudit(s.id, "participant", p, "FILE_UPLOADED",
                                   << <<"uploadId", nextId>>, <<"category", cats[pos].name>>,
                                      <<"size", File.size>>, <<"mime", File.mime>> >>, 1)
                       /\ Done("upload", "redirect")
                       /\ UNCHANGED << study, dataCategory, enrollment, consent, consentChoice >>

\* --------------------------------------------------------------- edit study

\* ensureThreeCategories: defaults for the positions a study lacks.
EnsureDefaults ==
  << [name |-> "Email", required |-> FALSE],
     [name |-> "Usage Logs", required |-> TRUE],
     [name |-> "Accelerometer", required |-> TRUE] >>

\* The early return taken on the count of all categories, of any study.
ensureThreeOfAnyStudy(rows, studyId, firstId, createdAt) ==
  LET n == Cardinality({c \in rows : c.studyId = studyId})
  IN IF Cardinality(rows) >= 3 THEN rows
     ELSE rows \cup { [ id |-> firstId + (i - n - 1), studyId |-> studyId,
                        name |-> EnsureDefaults[i].name, required |-> EnsureDefaults[i].required,
                        createdAt |-> createdAt ] : i \in (n + 1)..3 }

\* The DataCategory table after the call.
ensureThreeCategories(rows, studyId, firstId, createdAt) ==
  LET n == Cardinality({c \in rows : c.studyId = studyId})
  IN IF n >= 3 THEN rows
     ELSE rows \cup { [ id |-> firstId + (i - n - 1), studyId |-> studyId,
                        name |-> EnsureDefaults[i].name, required |-> EnsureDefaults[i].required,
                        createdAt |-> createdAt ] : i \in (n + 1)..3 }

\* findMany({where: {studyId}, orderBy: {createdAt: "asc"}}); rows of one
\* createdAt come in row-id order.
RECURSIVE SeqByCreatedAt(_)
SeqByCreatedAt(rows) ==
  IF rows = {} THEN <<>>
  ELSE LET first == CHOOSE r \in rows : \A q \in rows :
                      \/ r.createdAt < q.createdAt
                      \/ r.createdAt = q.createdAt /\ r.id <= q.id
       IN <<first>> \o SeqByCreatedAt(rows \ {first})

CategoriesAsc(rows, studyId) == SeqByCreatedAt({c \in rows : c.studyId = studyId})

\* What ensureThreeCategories returns.
EnsuredCategories(rows, studyId, firstId, createdAt) ==
  CategoriesAsc(ensureThreeCategories(rows, studyId, firstId, createdAt), studyId)

\* Edit forms: ids "own" carries the ids of the study's first three categories
\* (what the edit page renders); "stale" carries an id of no row as c3_id.
EditForms ==
  { [title |-> "Sleep Study", status |-> "invite", joinCode |-> Undefined, ids |-> "own",
     names |-> <<"E-mail", "Usage Logs", "Accelerometer">>, req |-> <<TRUE, FALSE, FALSE>>],
    [title |-> "Sleep study", status |-> "public", joinCode |-> Undefined, ids |-> "own",
     names |-> <<"Email", "Usage Logs", "Accelerometer">>, req |-> <<FALSE, TRUE, FALSE>>],
    [title |-> "Sleep study", status |-> "public", joinCode |-> Undefined, ids |-> "stale",
     names |-> <<"Email", "Usage Logs", "Accelerometer">>, req |-> <<FALSE, TRUE, FALSE>>] }

\* status === "invite" ? (joinCode?.trim().toUpperCase() || study.joinCode || genJoinCode()) : null
EditJoinCode(s, form, gen) ==
  IF form.status # "invite" THEN Null
  ELSE IF form.joinCode # Undefined /\ ToUpperCase(Trim(form.joinCode)) # ""
       THEN ToUpperCase(Trim(form.joinCode))
       ELSE IF s.joinCode \notin {Null, ""} THEN s.joinCode ELSE gen

\* status === "invite" ? (joinCode || study.joinCode) : null
EditAuditJoinCode(s, form) ==
  IF form.status # "invite" THEN Null
  ELSE IF form.joinCode \notin {Undefined, ""} THEN form.joinCode ELSE s.joinCode

\* An owner check that lets every signed-in researcher through.
AnyResearcher(s, r) == TRUE

\* study.ownerId !== req.session.user.id -> 403
IsOwner(s, r) == s.ownerId = r

\* An edit that deletes the named rows and creates them anew, under new ids.
RecreateCategories(rows, ids, form) ==
  { IF \E i \in 1..3 : ids[i] = c.id
    THEN LET i == CHOOSE j \in 1..3 : ids[j] = c.id
         IN [c EXCEPT !.id = c.id + 100, !.name = form.names[i], !.required = form.req[i]]
    ELSE c : c \in rows }

\* The three prisma.dataCategory.update calls, on the rows named by the form.
UpdateCategories(rows, ids, form) ==
  { IF \E i \in 1..3 : ids[i] = c.id
    THEN LET i == CHOOSE j \in 1..3 : ids[j] = c.id
         IN [c EXCEPT !.name = form.names[i], !.required = form.req[i]]
    ELSE c : c \in rows }

\* c1_id, c2_id, c3_id of the request body: the ids the edit page rendered
\* ("own"), those with an id of no row as c3_id ("stale"), or ids of the
\* categories of other studies ("foreign"); 0 is the id of no row.
FormIds(form, cats, rows, studyId) ==
  [i \in 1..3 |->
     CASE form.ids = "stale" /\ i = 3 -> 0
       [] form.ids = "foreign" ->
            LET others == SeqById({c \in rows : c.studyId # studyId})
            IN IF i <= Len(others) THEN others[i].id ELSE 0
       [] OTHER -> cats[i].id]

\* Where the store can fail an edit: in the transaction, or in the addAudit
\* that follows it inside the same try block.
EditFaults == {"none", "tx", "audit"}

\* POST /researcher/studies/:slug/edit
StudyEditStore(r, slug, form, gen, fault) ==
  /\ nOps < MaxOps
  /\ IF StudyBySlug(slug) = {}
     THEN Refuse("edit", "404")
     ELSE LET s == CHOOSE x \in StudyBySlug(slug) : TRUE
              ensured == ensureThreeCategories(dataCategory, s.id, nextId, now)
              made == Cardinality(ensured) - Cardinality(dataCategory)
              cats == CategoriesAsc(ensured, s.id)
              ids == FormIds(form, cats, ensured, s.id)
          IN IF ~IsOwner(s, r)
             THEN Refuse("edit", "403")
             ELSE IF fault = "tx" \/ \E i \in 1..3 : \A c \in ensured : c.id # ids[i]
             THEN /\ dataCategory' = ensured
                  /\ nextId' = nextId + made
                  /\ Done("edit", "failed")
                  /\ UNCHANGED << study, enrollment, consent, consentChoice, auditLog, upload, now >>
             ELSE IF fault = "audit"
             THEN /\ study' = (study \ {s}) \cup
                       {[s EXCEPT !.title = form.title, !.status = form.status,
                                  !.joinCode = EditJoinCode(s, form, gen)]}
                  /\ dataCategory' = UpdateCategories(ensured, ids, form)
                  /\ nextId' = nextId + made
                  /\ Done("edit", "failed")
                  /\ UNCHANGED << enrollment, consent, consentChoice, auditLog, upload, now >>
             ELSE /\ study' = (study \ {s}) \cup
                       {[s EXCEPT !.title = form.title, !.status = form.status,
                                  !.joinCode = EditJoinCode(s, form, gen)]}
                  /\ dataCategory' = UpdateCategories(ensured, ids, form)
                  /\ addAudit(s.id, "researcher", r, "STUDY_UPDATED",
                              << <<"status", form.status>>, <<"joinCode", EditAuditJoinCode(s, form)>> >>, made)
                  /\ Done("edit", "redirect")
                  /\ UNCHANGED << enrollment, consent, consentChoice, upload >>

\* POST /researcher/studies/:slug/edit with every store call answering.
StudyEdit(r, slug, form, gen) == StudyEditStore(r, slug, form, gen, "none")

\* POST /researcher/studies/:slug/joincode/regenerate
Regenerate(r, slug, gen) ==
  /\ nOps < MaxOps
  /\ IF StudyBySlug(slug) = {}
     THEN Refuse("regenerate", "404")
     ELSE LET s == CHOOSE x \in StudyBySlug(slug) : TRUE
          IN IF ~IsOwner(s, r)
             THEN Refuse("regenerate", "403")
             ELSE IF s.status # "invite"
             THEN Refuse("regenerate", "400")
             ELSE /\ study' = (study \ {s}) \cup {[s EXCEPT !.joinCode = gen]}
                  /\ addAudit(s.id, "researcher", r, "JOIN_CODE_REGENERATED", <<>>, 0)
                  /\ Done("regenerate", "redirect")
                  /\ UNCHANGED << dataCategory, enrollment, consent, consentChoice, upload >>

\* The committed prisma.$transaction of the delete handler: six deleteMany
\* and the delete of the Study row, whose ON DELETE CASCADE keys remove what
\* was inserted for the study since the deleteMany ran.
DeleteTransaction(studyId) ==
  LET gone == {c.id : c \in {x \in consent : x.studyId = studyId}} IN
  /\ upload' = {u \in upload : u.studyId # studyId}
  /\ consentChoice' = {ch \in consentChoice : ch.consentId \notin gone}
  /\ consent' = {c \in consent : c.studyId # studyId}
  /\ enrollment' = {e \in enrollment : e.studyId # studyId}
  /\ auditLog' = {a \in auditLog : a.studyId # studyId}
  /\ dataCategory' = {c \in dataCategory : c.studyId # studyId}
  /\ study' = {x \in study : x.id # studyId}

\* POST /researcher/studies/:slug/delete
StudyDelete(r, slug) ==
  /\ nOps < MaxOps
  /\ IF StudyBySlug(slug) = {}
     THEN Refuse("delete", "404")
     ELSE LET s == CHOOSE x \in StudyBySlug(slug) : TRUE
          IN IF ~IsOwner(s, r)
             THEN Refuse("delete", "403")
             ELSE /\ DeleteTransaction(s.id)
                  /\ Done("delete", "redirect")
                  /\ UNCHANGED << nextId, now >>

\* ------------------------------------------------------------ specification

\* Requests handled one at a time, the store never failing.
Next ==
  \/ \E form \in CreateForms, gen \in GenCodes : StudyCreate(form, gen)
  \/ \E p \in Participants, slug \in Slugs, code \in RawCodes : Enroll(p, slug, code)
  \/ \E p \in Participants, slug \in Slugs : Unenroll(p, slug)
  \/ \E p \in Participants, code \in RawCodes : JoinByCode(p, code)
  \/ \E p \in Participants, slug \in Slugs, shape \in BodyShapes : Consent(p, slug, shape, "none")
  \/ \E p \in Participants, slug \in Slugs : Withdraw(p, slug, "none")
  \/ \E p \in Participants, slug \in Slugs, v \in {None, Some(1), Some(2)} : ReceiptDownload(p, slug, v)
  \/ \E p \in Participants, slug \in Slugs, pos \in 0..2, safe \in BOOLEAN : Upload(p, slug, pos, safe)
  \/ \E r \in Researchers, slug \in Slugs, form \in EditForms, gen \in GenCodes : StudyEdit(r, slug, form, gen)
  \/ \E r \in Researchers, slug \in Slugs, gen \in GenCodes : Regenerate(r, slug, gen)
  \/ \E r \in Researchers, slug \in Slugs : StudyDelete(r, slug)

Spec == Init /\ [][Next]_vars

\* ------------------------------------------------- store failures (consent)

\* Requests handled one at a time; the store may fail inside the transaction
\* of consent and withdraw.
NextFault ==
  \/ \E form \in CreateForms, gen \in GenCodes : StudyCreate(form, gen)
  \/ \E p \in Participants, slug \in Slugs, shape \in BodyShapes, fault \in Faults :
       Consent(p, slug, shape, fault)
  \/ \E p \in Participants, slug \in Slugs, fault \in Faults : Withdraw(p, slug, fault)

SpecFault == Init /\ [][NextFault]_vars

\* Edits against a store that can fail, between creates, regenerates and
\* enrolls.
NextEditFault ==
  \/ \E form \in CreateForms, gen \in GenCodes : StudyCreate(form, gen)
  \/ \E r \in Researchers, slug \in Slugs, form \in EditForms, gen \in GenCodes, fault \in EditFaults :
       StudyEditStore(r, slug, form, gen, fault)
  \/ \E r \in Researchers, slug \in Slugs, gen \in GenCodes : Regenerate(r, slug, gen)
  \/ \E p \in Participants, slug \in Slugs, code \in RawCodes : Enroll(p, slug, code)

SpecEditFault == Init /\ [][NextEditFault]_vars

\* ------------------------------------------------------ overlapping enrolls

\* A store that does not check the keys to Study.
NoForeignKey(rows, studyId) == TRUE

\* The FOREIGN KEY ("studyId") REFERENCES "Study"("id") of every table: an
\* insert naming a study that is gone fails (P2003).
StudyExists(rows, studyId) == \E s \in rows : s.id = studyId

\* An AuditLog table with a unique index on (studyId, prevHash).
AuditLogUniquePrev(log, row) ==
  \A a \in log : a.id # row.id /\ ~(a.studyId = row.studyId /\ a.prevHash = row.prevHash)

\* What the AuditLog table asks of a new row: its primary key, and no unique
\* index besides.
AuditLogAccepts(log, row) == \A a \in log : a.id # row.id

\* A request between two awaited store calls: pc names the call it makes next.
EnrollRequest(rid, p, studyId) ==
  [ rid |-> rid, op |-> "enroll", who |-> p, sid |-> studyId, pc |-> "find",
    found |-> FALSE, prev |-> None, hashedAt |-> 0, read |-> "", wrote |-> "", version |-> 0,
    action |-> "ENROLLED", details |-> << <<"via", "study_page">> >> ]

\* POST /s/:slug/enroll up to its first write: the study lookup and the
\* join-code gate.
EnrollBegin(p, slug, rawCode) ==
  /\ nOps < MaxOps
  /\ IF StudyBySlug(slug) = {}
     THEN Refuse("enroll", "404")
     ELSE LET s == CHOOSE x \in StudyBySlug(slug) : TRUE IN
          IF InvalidJoinCode(s, rawCode)
          THEN Refuse("enroll", "invalid_code")
          ELSE /\ inflight' = inflight \cup {EnrollRequest(nOps, p, s.id)}
               /\ nOps' = nOps + 1
               /\ UNCHANGED << tables, nextId, now, last >>

\* upsert with an empty update is no single statement: the client first looks
\* the row up ...
UpsertFind(q) ==
  /\ q.pc = "find"
  /\ inflight' = (inflight \ {q}) \cup
       {[q EXCEPT !.pc = "write",
                  !.found = \E e \in enrollment : e.studyId = q.sid /\ e.participantId = q.who]}
  /\ UNCHANGED << tables, nextId, now, nOps, last >>

\* ... and then updates the row it found (with nothing) or creates one; the
\* create fails on Enrollment_studyId_participantId_key (P2002) when a row of
\* the pair was inserted in between, and the handler does not catch it.
UpsertWrite(q) ==
  /\ q.pc = "write"
  /\ IF q.found
     THEN /\ inflight' = (inflight \ {q}) \cup {[q EXCEPT !.pc = "audit"]}
          /\ UNCHANGED << tables, nextId, now, nOps, last >>
     ELSE IF ~StudyExists(study, q.sid)
     THEN /\ inflight' = inflight \ {q}
          /\ last' = [op |-> q.op, result |-> "P2003"]
          /\ UNCHANGED << tables, nextId, now, nOps >>
     ELSE IF \E e \in enrollment : e.studyId = q.sid /\ e.participantId = q.who
     THEN /\ inflight' = inflight \ {q}
          /\ last' = [op |-> q.op, result |-> "P2002"]
          /\ UNCHANGED << tables, nextId, now, nOps >>
     ELSE /\ enrollment' = enrollment \cup {[id |-> nextId, studyId |-> q.sid, participantId |-> q.who]}
          /\ nextId' = nextId + 1
          /\ inflight' = (inflight \ {q}) \cup {[q EXCEPT !.pc = "audit"]}
          /\ UNCHANGED << study, dataCategory, consent, consentChoice, auditLog, upload, now, nOps, last >>

\* addAudit up to its insert: findFirst, then new Date().
AuditRead(q) ==
  /\ q.pc = "audit"
  /\ \E prev \in LatestEntryHashes(auditLog, q.sid) :
       inflight' = (inflight \ {q}) \cup
         {[q EXCEPT !.pc = "insert", !.prev = prev, !.hashedAt = now]}
  /\ UNCHANGED << tables, nextId, now, nOps, last >>

\* addAudit's prisma.auditLog.create, and the handler's response.
AuditInsert(q) ==
  /\ q.pc = "insert"
  /\ inflight' = inflight \ {q}
  /\ IF ~StudyExists(study, q.sid)
     THEN /\ last' = [op |-> q.op, result |-> "P2003"]
          /\ UNCHANGED << tables, nextId, now, nOps >>
     ELSE LET row == AuditRow(nextId, q.sid, "participant", q.who, q.action, q.details,
                              q.prev, q.hashedAt, now)
          IN IF ~AuditLogAccepts(auditLog, row)
             THEN /\ last' = [op |-> q.op, result |-> "P2002"]
                  /\ UNCHANGED << tables, nextId, now, nOps >>
             ELSE /\ auditLog' = auditLog \cup {row}
                  /\ nextId' = nextId + 1
                  /\ last' = [op |-> q.op, result |-> "redirect"]
                  /\ UNCHANGED << study, dataCategory, enrollment, consent, consentChoice,
                                  upload, now, nOps >>

\* A millisecond passes while requests are in flight.
Tick ==
  /\ inflight # {}
  /\ now < MaxClock
  /\ now' = now + 1
  /\ UNCHANGED << tables, nextId, nOps, last, inflight >>

\* Enroll requests interleaved at their store calls, on a study created
\* beforehand.
NextOverlap ==
  \/ \E form \in CreateForms, gen \in GenCodes : inflight = {} /\ StudyCreate(form, gen)
  \/ \E p \in Participants, slug \in Slugs, code \in RawCodes : EnrollBegin(p, slug, code)
  \/ \E q \in inflight : UpsertFind(q)
  \/ \E q \in inflight : UpsertWrite(q)
  \/ \E q \in inflight : AuditRead(q)
  \/ \E q \in inflight : AuditInsert(q)
  \/ Tick

SpecOverlap == Init /\ [][NextOverlap]_vars

\* ------------------------------------------------------ overlapping deletes

\* The delete handler after its lookup, before its transaction.
DeleteRequest(rid, r, studyId) ==
  [ rid |-> rid, op |-> "delete", who |-> r, sid |-> studyId, pc |-> "tx",
    found |-> FALSE, prev |-> None, hashedAt |-> 0, read |-> "", wrote |-> "", version |-> 0,
    action |-> "", details |-> <<>> ]

\* POST /researcher/studies/:slug/delete up to its transaction: the lookup and
\* the owner check.
DeleteBegin(r, slug) ==
  /\ nOps < MaxOps
  /\ IF StudyBySlug(slug) = {}
     THEN Refuse("delete", "404")
     ELSE LET s == CHOOSE x \in StudyBySlug(slug) : TRUE
          IN IF ~IsOwner(s, r)
             THEN Refuse("delete", "403")
             ELSE /\ inflight' = inflight \cup {DeleteRequest(nOps, r, s.id)}
                  /\ nOps' = nOps + 1
                  /\ UNCHANGED << tables, nextId, now, last >>

\* What can become of the transaction: it commits, or the store fails in it.
TxFaults == {"none", "fail"}

\* The transaction of the delete handler. It commits as a whole or, when the
\* store fails or the Study row is gone already (study.delete throws P2025),
\* rolls back as a whole; the handler does not catch the error.
DeleteCommit(q, fault) ==
  /\ q.op = "delete" /\ q.pc = "tx"
  /\ inflight' = inflight \ {q}
  /\ IF fault = "fail"
     THEN /\ last' = [op |-> "delete", result |-> "failed"]
          /\ UNCHANGED << tables, nextId, now, nOps >>
     ELSE IF ~(\E x \in study : x.id = q.sid)
     THEN /\ last' = [op |-> "delete", result |-> "P2025"]
          /\ UNCHANGED << tables, nextId, now, nOps >>
     ELSE /\ DeleteTransaction(q.sid)
          /\ last' = [op |-> "delete", result |-> "redirect"]
          /\ UNCHANGED << nextId, now, nOps >>

\* Deletes interleaved with enroll requests at their store calls, and with
\* consent, withdraw and upload requests.
NextDelete ==
  \/ \E form \in CreateForms, gen \in GenCodes : inflight = {} /\ StudyCreate(form, gen)
  \/ \E p \in Participants, slug \in Slugs, code \in RawCodes : EnrollBegin(p, slug, code)
  \/ \E q \in inflight : UpsertFind(q)
  \/ \E q \in inflight : UpsertWrite(q)
  \/ \E q \in inflight : AuditRead(q)
  \/ \E q \in inflight : AuditInsert(q)
  \/ \E slug \in Slugs, shape \in BodyShapes : Consent("p1", slug, shape, "none")
  \/ \E slug \in Slugs : Withdraw("p1", slug, "none")
  \/ \E slug \in Slugs, safe \in BOOLEAN : Upload("p1", slug, 2, safe)
  \/ \E r \in Researchers, slug \in Slugs : DeleteBegin(r, slug)
  \/ \E q \in inflight, fault \in TxFaults : DeleteCommit(q, fault)
  \/ Tick

SpecDelete == Init /\ [][NextDelete]_vars

\* -------------------------------------- overlapping edits and regenerates

\* A researcher's request after its lookup: read is the joinCode of the Study
\* row the handler holds, wrote the code a regenerate installed.
StudyRequest(rid, op, r, s) ==
  [ rid |-> rid, op |-> op, who |-> r, sid |-> s.id, pc |-> "write",
    found |-> FALSE, prev |-> None, hashedAt |-> 0, read |-> s.joinCode, wrote |-> "", version |-> 0,
    action |-> "", details |-> <<>> ]

\* Codes genJoinCode returns here: random codes, taken never to repeat one
\* that some study has or had.
NewCodes == GenCodes \cup {"GEN00003"}

FreshCodes ==
  NewCodes \ ({s.joinCode : s \in study} \cup {q.read : q \in inflight} \cup {q.wrote : q \in inflight})

\* POST /researcher/studies/:slug/edit up to its transaction: the lookup, the
\* owner check and ensureThreeCategories.
EditBegin(r, slug) ==
  /\ nOps < MaxOps
  /\ IF StudyBySlug(slug) = {}
     THEN Refuse("edit", "404")
     ELSE LET s == CHOOSE x \in StudyBySlug(slug) : TRUE
              ensured == ensureThreeCategories(dataCategory, s.id, nextId, now)
          IN IF ~IsOwner(s, r)
             THEN Refuse("edit", "403")
             ELSE /\ dataCategory' = ensured
                  /\ nextId' = nextId + Cardinality(ensured) - Cardinality(dataCategory)
                  /\ inflight' = inflight \cup {StudyRequest(nOps, "edit", r, s)}
                  /\ nOps' = nOps + 1
                  /\ UNCHANGED << study, enrollment, consent, consentChoice, auditLog, upload, now, last >>

\* The transaction of the edit handler and its addAudit. The joinCode written
\* falls back to the one of the row read at the start of the request.
EditWrite(q, form, gen) ==
  /\ q.op = "edit" /\ q.pc = "write"
  /\ inflight' = inflight \ {q}
  /\ LET held == [joinCode |-> q.read]
         cats == CategoriesAsc(dataCategory, q.sid)
         ids == [i \in 1..3 |-> IF form.ids = "stale" /\ i = 3 THEN 0 ELSE cats[i].id]
     IN IF \/ ~(\E x \in study : x.id = q.sid)
           \/ \E i \in 1..3 : \A c \in dataCategory : c.id # ids[i]
        THEN /\ last' = [op |-> "edit", result |-> "failed"]
             /\ UNCHANGED << tables, nextId, now, nOps >>
        ELSE /\ study' = { IF x.id = q.sid
                           THEN [x EXCEPT !.title = form.title, !.status = form.status,
                                          !.joinCode = EditJoinCode(held, form, gen)]
                           ELSE x : x \in study }
             /\ dataCategory' = UpdateCategories(dataCategory, ids, form)
             /\ addAudit(q.sid, "researcher", q.who, "STUDY_UPDATED",
                         << <<"status", form.status>>, <<"joinCode", EditAuditJoinCode(held, form)>> >>, 0)
             /\ last' = [op |-> "edit", result |-> "redirect"]
             /\ UNCHANGED << enrollment, consent, consentChoice, upload, nOps >>

\* POST /researcher/studies/:slug/joincode/regenerate up to its update: the
\* lookup and the three checks.
RegenerateBegin(r, slug) ==
  /\ nOps < MaxOps
  /\ IF StudyBySlug(slug) = {}
     THEN Refuse("regenerate", "404")
     ELSE LET s == CHOOSE x \in StudyBySlug(slug) : TRUE
          IN IF ~IsOwner(s, r)
             THEN Refuse("regenerate", "403")
             ELSE IF s.status # "invite"
             THEN Refuse("regenerate", "400")
             ELSE /\ inflight' = inflight \cup {StudyRequest(nOps, "regenerate", r, s)}
                  /\ nOps' = nOps + 1
                  /\ UNCHANGED << tables, nextId, now, last >>

\* prisma.study.update({data: {joinCode: newCode}}), addAudit and the
\* redirect. The answered request is kept, with the code it installed.
RegenerateUpdate(q, gen) ==
  /\ q.op = "regenerate" /\ q.pc = "write"
  /\ IF ~(\E x \in study : x.id = q.sid)
     THEN /\ inflight' = inflight \ {q}
          /\ last' = [op |-> "regenerate", result |-> "P2025"]
          /\ UNCHANGED << tables, nextId, now, nOps >>
     ELSE /\ study' = {IF x.id = q.sid THEN [x EXCEPT !.joinCode = gen] ELSE x : x \in study}
          /\ addAudit(q.sid, "researcher", q.who, "JOIN_CODE_REGENERATED", <<>>, 0)
          /\ inflight' = (inflight \ {q}) \cup {[q EXCEPT !.pc = "done", !.wrote = gen]}
          /\ last' = [op |-> "regenerate", result |-> "redirect"]
          /\ UNCHANGED << dataCategory, enrollment, consent, consentChoice, upload, nOps >>

\* Edit and regenerate requests interleaved at their store calls, with enroll
\* requests between them.
NextCode ==
  \/ \E form \in CreateForms, gen \in GenCodes : inflight = {} /\ StudyCreate(form, gen)
  \/ \E p \in Participants, slug \in Slugs, code \in RawCodes : Enroll(p, slug, code)
  \/ \E r \in Researchers, slug \in Slugs : EditBegin(r, slug)
  \/ \E q \in inflight, form \in EditForms, gen \in FreshCodes : EditWrite(q, form, gen)
  \/ \E r \in Researchers, slug \in Slugs : RegenerateBegin(r, slug)
  \/ \E q \in inflight, gen \in FreshCodes : RegenerateUpdate(q, gen)

SpecCode == Init /\ [][NextCode]_vars

\* ------------------------------------------- overlapping consent decisions

\* A Consent table with a unique index on (studyId, participantId, version).
ConsentUniqueVersion(rows, row) ==
  \A c \in rows :
    /\ c.id # row.id
    /\ ~(c.studyId = row.studyId /\ c.participantId = row.participantId /\ c.version = row.version)

\* What the Consent table asks of a new row: its primary key; the index on
\* (studyId, participantId, version) is not unique.
ConsentAccepts(rows, row) == \A c \in rows : c.id # row.id

\* A consent or withdraw request before its transaction: found says whether
\* findFirst returned a row, version is the version it computed, hashedAt the
\* clock it read, details the request body.
DecisionRequest(rid, op, p, s, shape) ==
  [ rid |-> rid, op |-> op, who |-> p, sid |-> s.id, pc |-> "tx",
    found |-> HasPrev(consent, s.id, p), prev |-> None, hashedAt |-> now,
    read |-> "", wrote |-> "", version |-> NextVersion(consent, s.id, p),
    action |-> "", details |-> shape ]

\* POST /s/:slug/consent and /s/:slug/withdraw up to prisma.$transaction: the
\* study lookup, the findFirst of the latest version and the receipt.
DecisionBegin(p, slug, op, shape) ==
  /\ nOps < MaxOps
  /\ IF StudyBySlug(slug) = {}
     THEN Refuse(op, "404")
     ELSE LET s == CHOOSE x \in StudyBySlug(slug) : TRUE
          IN /\ inflight' = inflight \cup {DecisionRequest(nOps, op, p, s, shape)}
             /\ nOps' = nOps + 1
             /\ UNCHANGED << tables, nextId, now, last >>

\* The transaction of the request: tx.consent.create with its choices, then
\* addAudit. Study and categories are as the request read them: nothing
\* changes them while a request is in flight here.
DecisionWrite(q) ==
  /\ q.op \in {"consent", "withdraw"} /\ q.pc = "tx"
  /\ inflight' = inflight \ {q}
  /\ LET s == CHOOSE x \in study : x.id = q.sid
         cats == Categories(dataCategory, s.id)
         asked == q.op = "consent"
         decisions == IF asked THEN ConsentDecisions(cats, q.details) ELSE WithdrawDecisions(cats)
         granted == asked /\ Granted(decisions)
         at == toISOString(q.hashedAt)
         base == ReceiptBase(s, cats, q.who, decisions, at, IF asked THEN None ELSE at)
         row == ConsentRow(nextId, s, q.who, q.version, granted,
                           IF asked THEN None ELSE Some(q.hashedAt), base)
         action == IF ~asked THEN "WITHDRAWN"
                   ELSE IF q.found THEN "CONSENT_EDITED" ELSE "CONSENT_GIVEN"
         details == IF asked
                    THEN << <<"version", q.version>>, <<"granted", granted>>,
                            <<"decisions", DecisionsJson(decisions)>> >>
                    ELSE << <<"version", q.version>> >>
     IN IF ~ConsentAccepts(consent, row)
        THEN /\ last' = [op |-> q.op, result |-> "P2002"]
             /\ UNCHANGED << tables, nextId, now, nOps >>
        ELSE /\ consent' = ConsentCreate(consent, row)
             /\ consentChoice' = consentChoice \cup ChoiceRows(nextId + 1, nextId, decisions)
             /\ addAudit(s.id, "participant", q.who, action, details, Len(decisions) + 1)
             /\ last' = [op |-> q.op, result |-> "saved"]
             /\ UNCHANGED << study, dataCategory, enrollment, upload, nOps >>

\* Consent and withdraw requests interleaved at their transactions, on a
\* study created beforehand.
NextDecision ==
  \/ \E form \in CreateForms, gen \in GenCodes : inflight = {} /\ StudyCreate(form, gen)
  \/ \E p \in Participants, slug \in Slugs, shape \in BodyShapes :
       DecisionBegin(p, slug, "consent", shape)
  \/ \E p \in Participants, slug \in Slugs : DecisionBegin(p, slug, "withdraw", <<>>)
  \/ \E q \in inflight : DecisionWrite(q)
  \/ Tick

SpecDecision == Init /\ [][NextDecision]_vars

\* ------------------------------- routes/researcher.js and the /join route

\* The row prisma.auditLog.create is given by handlers that do not call
\* addAudit: no prevHash and no entryHash in its data.
UnhashedAuditRow(id, studyId, actorRole, actorId, action, details, insertedAt) ==
  [ id |-> id, studyId |-> studyId, actorRole |-> actorRole, actorId |-> actorId,
    action |-> action, details |-> Jsonb(details), prevHash |-> None,
    entryHash |-> None, createdAt |-> insertedAt ]

\* "entryHash" TEXT NOT NULL, with no default: a row without it is rejected.
AuditLogNotNull(row) == row.entryHash # None

\* POST /researcher/studies/:slug/edit of routes/researcher.js: study.update,
\* three dataCategory.update and auditLog.create in one transaction; a
\* rejected statement rolls all of it back and the form is rendered again.
ResearcherEdit(r, slug, form, gen) ==
  /\ nOps < MaxOps
  /\ IF StudyBySlug(slug) = {}
     THEN Refuse("edit", "404")
     ELSE LET s == CHOOSE x \in StudyBySlug(slug) : TRUE
              cats == Categories(dataCategory, s.id)
              ids == [i \in 1..3 |-> IF form.ids = "stale" /\ i = 3 THEN 0 ELSE cats[i].id]
              row == UnhashedAuditRow(nextId, s.id, "researcher", r, "STUDY_UPDATED",
                       << <<"status", form.status>>, <<"joinCode", EditAuditJoinCode(s, form)>> >>,
                       now)
          IN IF ~IsOwner(s, r)
             THEN Refuse("edit", "403")
             ELSE IF \/ \E i \in 1..3 : \A c \in dataCategory : c.id # ids[i]
                     \/ ~AuditLogNotNull(row)
             THEN /\ Done("edit", "failed")
                  /\ UNCHANGED << tables, nextId, now >>
             ELSE /\ study' = (study \ {s}) \cup
                       {[s EXCEPT !.title = form.title, !.status = form.status,
                                  !.joinCode = EditJoinCode(s, form, gen)]}
                  /\ dataCategory' = UpdateCategories(dataCategory, ids, form)
                  /\ auditLog' = auditLog \cup {row}
                  /\ nextId' = nextId + 1
                  /\ Done("edit", "redirect")
                  /\ UNCHANGED << enrollment, consent, consentChoice, upload, now >>

\* POST /researcher/studies/:slug/joincode/regenerate of routes/researcher.js:
\* study.update and auditLog.create in one transaction, its rejection not
\* caught.
ResearcherRegenerate(r, slug, gen) ==
  /\ nOps < MaxOps
  /\ IF StudyBySlug(slug) = {}
     THEN Refuse("regenerate", "404")
     ELSE LET s == CHOOSE x \in StudyBySlug(slug) : TRUE
              row == UnhashedAuditRow(nextId, s.id, "researcher", r, "JOIN_CODE_REGENERATED",
                                      <<>>, now)
          IN IF ~IsOwner(s, r)
             THEN Refuse("regenerate", "403")
             ELSE IF s.status # "invite"
             THEN Refuse("regenerate", "400")
             ELSE IF ~AuditLogNotNull(row)
             THEN /\ Done("regenerate", "failed")
                  /\ UNCHANGED << tables, nextId, now >>
             ELSE /\ study' = (study \ {s}) \cup {[s EXCEPT !.joinCode = gen]}
                  /\ auditLog' = auditLog \cup {row}
                  /\ nextId' = nextId + 1
                  /\ Done("regenerate", "redirect")
                  /\ UNCHANGED << dataCategory, enrollment, consent, consentChoice, upload, now >>

\* raw.trim().toUpperCase().replace(/[^A-Z0-9]/g, "")
JoinCodeOf(raw) == StripNonAlnum(ToUpperCase(Trim(OrEmptyString(raw))))

\* POST /join: the upsert is awaited before auditLog.create, so the
\* Enrollment row stays when the audit row is rejected; the catch block
\* answers with "Join failed".
Join(p, rawCode) ==
  /\ nOps < MaxOps
  /\ LET code == JoinCodeOf(rawCode)
         found == {s \in study : s.status = "invite" /\ s.joinCode = code}
     IN IF code = "" \/ Len(code) < 6 \/ Len(code) > 12
        THEN Refuse("join", "400")
        ELSE IF found = {}
        THEN Refuse("join", "404")
        ELSE \E s \in found :
             LET row == UnhashedAuditRow(nextId + 1, s.id, "participant", p, "ENROLLED",
                                         << <<"via", "code">> >>, now)
             IN /\ enrollment' = EnrollmentUpsert(enrollment, nextId, s.id, p)
                /\ nextId' = nextId + 2
                /\ IF AuditLogNotNull(row)
                   THEN auditLog' = auditLog \cup {row} /\ Done("join", "redirect")
                   ELSE auditLog' = auditLog /\ Done("join", "failed")
                /\ UNCHANGED << study, dataCategory, consent, consentChoice, upload, now >>

\* Edit forms that carry the ids of the study's own categories.
OwnIdForms == {form \in EditForms : form.ids = "own"}

\* The handlers of routes/researcher.js and the /join route, on studies
\* created and enrolled into through the other routes.
NextResearcher ==
  \/ \E form \in CreateForms, gen \in GenCodes : StudyCreate(form, gen)
  \/ \E p \in Participants, slug \in Slugs, code \in RawCodes : Enroll(p, slug, code)
  \/ \E p \in Participants, slug \in Slugs : Unenroll(p, slug)
  \/ \E r \in Researchers, slug \in Slugs, form \in OwnIdForms, gen \in GenCodes :
       ResearcherEdit(r, slug, form, gen)
  \/ \E r \in Researchers, slug \in Slugs, gen \in GenCodes : ResearcherRegenerate(r, slug, gen)
  \/ \E p \in Participants, code \in RawCodes : Join(p, code)

SpecResearcher == Init /\ [][NextResearcher]_vars

\* ------------------------------------------------------------------ claims

\* The timestamp text that went into an entry's hash.
HashedTimestamp(a) == a.entryHash[2][4]

\* C2: every audit entry's stored createdAt is the timestamp that was fed into
\* its entryHash, so the hash can be recomputed from the stored fields.
C2_CreatedAtIsHashed ==
  \A a \in auditLog : HashedTimestamp(a) = toISOString(a.createdAt)

\* C3: for every (study, participant) pair the versions of its Consent rows
\* are exactly 1..n, n the number of rows, after any sequence of consents and
\* withdrawals handled one at a time.
C3_VersionsContiguous ==
  \A c \in consent :
    LET mine == PairRows(consent, c.studyId, c.participantId)
    IN {q.version : q \in mine} = 1..Cardinality(mine)

\* A pair with two versions, one a consent and one a withdrawal.
C3_Witness ==
  \E c \in consent, w \in consent :
    /\ c.studyId = w.studyId /\ c.participantId = w.participantId
    /\ c.withdrawnAt = None /\ w.withdrawnAt # None
    /\ {c.version, w.version} = {1, 2}

ChoicesOf(rows, consentId) == {ch \in rows : ch.consentId = consentId}

\* C4: an existing Consent row and its ConsentChoice rows are left as they are
\* by every request; only the deletion of the whole study removes them.
C4_ConsentRowsKept ==
  [][\A c \in consent :
       \/ /\ c \in consent'
          /\ ChoicesOf(consentChoice', c.id) = ChoicesOf(consentChoice, c.id)
       \/ /\ last'.op = "delete"
          /\ \A s \in study' : s.id # c.studyId]_vars

\* An edit that renamed a category and made it required went through while a
\* Consent row with a choice on that category exists.
C4_Witness ==
  /\ last = [op |-> "edit", result |-> "redirect"]
  /\ \E c \in consent, ch \in consentChoice, cat \in dataCategory :
       /\ ch.consentId = c.id /\ ch.categoryId = cat.id
       /\ cat.name = "E-mail" /\ cat.required /\ ~ch.allowed

\* C6: for every Consent row, receiptHash is "sha256:" + the hash of the stored
\* receiptJson without its receipt_hash member, and receiptJson.receipt_hash
\* equals receiptHash.
C6_ReceiptSelfVerifying ==
  \A c \in consent :
    /\ c.receiptHash = ReceiptHash(JsonOmit(c.receiptJson, "receipt_hash"))
    /\ JsonGet(c.receiptJson, "receipt_hash") = c.receiptHash

\* C7: a consent request stores allowed = TRUE for every category required at
\* write time whatever was submitted, and for every other category allowed =
\* TRUE exactly when its field was submitted.
C7_RequiredForced ==
  [][\A p \in Participants, slug \in Slugs, shape \in BodyShapes :
       (last' = [op |-> "consent", result |-> "saved"] /\ Consent(p, slug, shape, "none")) =>
         LET s == CHOOSE x \in StudyBySlug(slug) : TRUE
             cats == Categories(dataCategory, s.id)
         IN /\ consent' # consent
            /\ \A c \in consent' \ consent : \A i \in DOMAIN cats :
                 \E ch \in ChoicesOf(consentChoice', c.id) :
                   /\ ch.categoryId = cats[i].id
                   /\ ch.allowed = (cats[i].required \/ shape[i] = "on")]_vars

\* A consent just saved: a required category allowed, the ticked optional one
\* allowed, the unticked optional one not.
C7_Witness ==
  /\ last = [op |-> "consent", result |-> "saved"]
  /\ \E c \in consent : \E a \in dataCategory, b \in dataCategory, d \in dataCategory :
       /\ c.withdrawnAt = None
       /\ a.required /\ ~b.required /\ ~d.required
       /\ [id |-> c.id + 1, consentId |-> c.id, categoryId |-> b.id, allowed |-> TRUE] \in consentChoice
       /\ [id |-> c.id + 2, consentId |-> c.id, categoryId |-> a.id, allowed |-> TRUE] \in consentChoice
       /\ [id |-> c.id + 3, consentId |-> c.id, categoryId |-> d.id, allowed |-> FALSE] \in consentChoice

\* The greatest version among rows, 0 for none.
MaxVersion(rows) ==
  IF rows = {} THEN 0 ELSE (CHOOSE c \in rows : \A q \in rows : q.version <= c.version).version

\* C8: a withdrawal adds one Consent row with version = previous max + 1 (1 for
\* the first), granted = FALSE, withdrawnAt set and allowed = FALSE for every
\* category of the study, and leaves the earlier rows as they were.
C8_WithdrawAppends ==
  [][(last' = [op |-> "withdraw", result |-> "saved"]) =>
       /\ consent \subseteq consent'
       /\ consentChoice \subseteq consentChoice'
       /\ Cardinality(consent' \ consent) = 1
       /\ \A c \in consent' \ consent :
            /\ c.version = MaxVersion(PairRows(consent, c.studyId, c.participantId)) + 1
            /\ ~c.granted
            /\ c.withdrawnAt # None
            /\ \A ch \in ChoicesOf(consentChoice', c.id) : ~ch.allowed
            /\ \A cat \in dataCategory : cat.studyId = c.studyId =>
                 \E ch \in ChoicesOf(consentChoice', c.id) : ch.categoryId = cat.id]_vars

\* A withdrawal as version 2 on a study with a required category, version 1
\* still granted.
C8_Witness ==
  /\ last = [op |-> "withdraw", result |-> "saved"]
  /\ \E c \in consent, w \in consent :
       /\ c.studyId = w.studyId /\ c.participantId = w.participantId
       /\ c.version = 1 /\ c.granted
       /\ w.version = 2 /\ w.withdrawnAt # None
       /\ \E cat \in dataCategory : cat.studyId = w.studyId /\ cat.required

\* C9: a Consent row is granted exactly when one of its choices is allowed.
C9_GrantedIffSomeAllowed ==
  \A c \in consent :
    c.granted <=> \E ch \in ChoicesOf(consentChoice, c.id) : ch.allowed

\* A consent (not a withdrawal) with nothing allowed next to one with a single
\* category allowed.
C9_Witness ==
  \E c \in consent, g \in consent :
    /\ c.withdrawnAt = None /\ ~c.granted
    /\ g.granted
    /\ \E ch \in ChoicesOf(consentChoice, g.id) : ~ch.allowed

StudyEntries(studyId) == {a \in auditLog : a.studyId = studyId}

\* C1: the audit entries of a study form one chain in creation order: one
\* first entry with prevHash null, every other entry's prevHash the entryHash
\* of an entry not younger than it, and no entryHash followed by two entries.
C1_ChainLinked ==
  \A a \in auditLog :
    LET mine == StudyEntries(a.studyId)
    IN /\ a.prevHash = None => \A b \in mine : b.prevHash = None => b = a
       /\ a.prevHash # None =>
            \E b \in mine : b # a /\ b.entryHash = a.prevHash /\ b.createdAt <= a.createdAt
       /\ \A b \in mine : b.prevHash = a.prevHash => b = a

DecisionActions == {"CONSENT_GIVEN", "CONSENT_EDITED", "WITHDRAWN"}

\* The audit entry of a decision and the Consent row it belongs to.
Matches(a, c) ==
  /\ a.studyId = c.studyId
  /\ a.actorId = c.participantId
  /\ a.action \in (IF c.withdrawnAt = None THEN {"CONSENT_GIVEN", "CONSENT_EDITED"} ELSE {"WITHDRAWN"})
  /\ JsonGet(a.details, "version") = c.version

\* C5: a Consent row of version v exists exactly when the study's log holds
\* the decision entry for v by that participant, store failures included, and
\* every Consent row has a choice for each category of its study.
C5_DecisionIffAudit ==
  /\ \A c \in consent : \E a \in auditLog : Matches(a, c)
  /\ \A a \in auditLog : a.action \in DecisionActions => \E c \in consent : Matches(a, c)
  /\ \A c \in consent : \A cat \in dataCategory : cat.studyId = c.studyId =>
       \E ch \in ChoicesOf(consentChoice, c.id) : ch.categoryId = cat.id

\* C10: there is at most one Enrollment row per (study, participant), and no
\* enroll request, overlapping ones included, ends in an error.
C10_EnrollIdempotent ==
  /\ \A e \in enrollment, f \in enrollment :
       (e.studyId = f.studyId /\ e.participantId = f.participantId) => e = f
  /\ last # [op |-> "enroll", result |-> "P2002"]

\* C11: on an invite study with a join code, an enroll request whose code
\* (trimmed, upper-cased) differs from the stored one gets the invalid-code
\* response and no table changes.
C11_WrongCodeRefused ==
  [][\A p \in Participants, slug \in Slugs, code \in RawCodes :
       ( /\ last'.op = "enroll"
         /\ \E s \in StudyBySlug(slug) :
              /\ s.status = "invite"
              /\ s.joinCode \notin {Null, ""}
              /\ ToUpperCase(Trim(OrEmptyString(code))) # s.joinCode
         /\ Enroll(p, slug, code) ) =>
         /\ last'.result = "invalid_code"
         /\ UNCHANGED tables]_vars

\* An enroll was refused for its code on an invite study.
C11_Witness ==
  /\ last = [op |-> "enroll", result |-> "invalid_code"]
  /\ \E s \in study : s.status = "invite" /\ s.joinCode = "ABCD1234"
  /\ enrollment = {}

\* C12: an enroll request on a draft study fails and creates no Enrollment
\* row.
C12_DraftRefusesEnroll ==
  [][\A p \in Participants, slug \in Slugs, code \in RawCodes :
       ( /\ last'.op = "enroll"
         /\ \E s \in StudyBySlug(slug) : s.status = "draft"
         /\ Enroll(p, slug, code) ) =>
         /\ last'.result # "redirect"
         /\ enrollment' = enrollment]_vars

\* C14: on a public study, or an invite study without a join code, an enroll
\* request succeeds whatever code it carries, and the pair then has exactly
\* one Enrollment row.
C14_OpenStudyAdmits ==
  [][\A p \in Participants, slug \in Slugs, code \in RawCodes :
       ( /\ last'.op = "enroll"
         /\ \E s \in StudyBySlug(slug) :
              \/ s.status = "public"
              \/ s.status = "invite" /\ s.joinCode \in {Null, ""}
         /\ Enroll(p, slug, code) ) =>
         /\ last'.result = "redirect"
         /\ \E s \in StudyBySlug(slug) :
              Cardinality({e \in enrollment' : e.studyId = s.id /\ e.participantId = p}) = 1]_vars

\* A participant enrolled twice in a public study: two ENROLLED entries, one
\* row.
C14_Witness ==
  /\ last = [op |-> "enroll", result |-> "redirect"]
  /\ \E s \in study, e \in enrollment :
       /\ s.status = "public" /\ e.studyId = s.id
       /\ Cardinality({a \in auditLog : a.action = "ENROLLED" /\ a.actorId = e.participantId}) = 2
       /\ Cardinality(enrollment) = 1

\* C15: unenroll leaves no Enrollment row of the pair, whatever the study's
\* status and whether or not there was one, and changes no other Enrollment
\* row and no Consent or ConsentChoice row.
C15_UnenrollFrame ==
  [][\A p \in Participants, slug \in Slugs :
       ( /\ last'.op = "unenroll"
         /\ StudyBySlug(slug) # {}
         /\ Unenroll(p, slug) ) =>
         LET s == CHOOSE x \in StudyBySlug(slug) : TRUE
             pair(e) == e.studyId = s.id /\ e.participantId = p
         IN /\ last'.result = "redirect"
            /\ \A e \in enrollment' : ~pair(e)
            /\ \A e \in enrollment : ~pair(e) => e \in enrollment'
            /\ consent' = consent
            /\ consentChoice' = consentChoice]_vars

\* An unenroll went through on a study where a Consent row exists and no
\* Enrollment row is left.
C15_Witness ==
  /\ last = [op |-> "unenroll", result |-> "redirect"]
  /\ consent # {} /\ consentChoice # {}
  /\ enrollment = {}

\* ------------------------------------- ensureThreeCategories on its own

\* Names a stored category can carry.
StoredNames == {"Email", "Usage Logs", "Heart Rate"}

\* The study the calls are made for, and a category of another study.
StoredStudy ==
  StudyRow(1, [owner |-> "r1", title |-> "Sleep Study", status |-> "public"], Null)

ForeignCategory ==
  [id |-> 8, studyId |-> 7, name |-> "Email", required |-> FALSE, createdAt |-> 0]

\* The category tables a study of 0..MaxStored categories can have: ids in
\* creation order, any names and required flags.
StoredTables ==
  UNION { { { [ id |-> 1 + i, studyId |-> 1, name |-> names[i], required |-> reqs[i],
                createdAt |-> 0 ] : i \in 1..k }
            : names \in [1..k -> StoredNames], reqs \in [1..k -> BOOLEAN] }
          : k \in 0..MaxStored }

InitEnsure ==
  /\ study = {StoredStudy}
  /\ \E own \in StoredTables, other \in {{}, {ForeignCategory}} : dataCategory = own \cup other
  /\ enrollment = {}
  /\ consent = {}
  /\ consentChoice = {}
  /\ auditLog = {}
  /\ upload = {}
  /\ nextId = 10
  /\ now \in 0..MaxClock
  /\ nOps = 0
  /\ last = [op |-> "none", result |-> "none"]
  /\ inflight = {}

\* const cats = await ensureThreeCategories(study.id)
EnsureCall ==
  /\ nOps < MaxOps
  /\ \E s \in study :
       /\ dataCategory' = ensureThreeCategories(dataCategory, s.id, nextId, now)
       /\ nextId' = nextId + (Cardinality(dataCategory') - Cardinality(dataCategory))
  /\ Done("ensure", "returned")
  /\ UNCHANGED << study, enrollment, consent, consentChoice, auditLog, upload, now >>

NextEnsure == EnsureCall

SpecEnsure == InitEnsure /\ [][NextEnsure]_vars

ChoiceRefsValid ==
  \A ch \in consentChoice :
    \E c \in consent, cat \in dataCategory :
      c.id = ch.consentId /\ cat.id = ch.categoryId /\ cat.studyId = c.studyId

\* C17: an edit leaves the set of category ids of every study as it was, and
\* in every state every ConsentChoice names an existing category of the study
\* of its Consent row.
C17_CategoryIdsKept ==
  [][/\ last'.op = "edit" =>
          {<<c.id, c.studyId>> : c \in dataCategory'} = {<<c.id, c.studyId>> : c \in dataCategory}
     /\ ChoiceRefsValid']_vars

\* An edit went through on a study with recorded choices; the category of a
\* granted choice now carries its new name.
C17_Witness ==
  /\ last = [op |-> "edit", result |-> "redirect"]
  /\ \E c \in consent, ch \in consentChoice, cat \in dataCategory :
       /\ c.granted /\ ch.consentId = c.id /\ ch.allowed
       /\ cat.id = ch.categoryId /\ cat.name = "E-mail"

\* C19: a create whose title slugifies to a slug in use still creates the
\* study, under a slug of its own.
C19_CollisionRetried ==
  [][\A form \in CreateForms :
       (/\ last'.op = "create"
        /\ StudyBySlug(slugify(form.title)) # {}
        /\ \E gen \in GenCodes : StudyCreate(form, gen))
       => \E s \in study' \ study : s.title = form.title /\ s.ownerId = form.owner]_vars

\* C20: an edit, regenerate or delete request for an unknown slug answers 404,
\* one by a researcher who does not own the study answers 403, and either
\* leaves every table as it was.
C20_RefusedChangesNothing ==
  [][last'.op \in {"edit", "regenerate", "delete"} =>
       \A r \in Researchers, slug \in Slugs :
         (\/ \E form \in EditForms, gen \in GenCodes : StudyEdit(r, slug, form, gen)
          \/ \E gen \in GenCodes : Regenerate(r, slug, gen)
          \/ StudyDelete(r, slug))
         => /\ StudyBySlug(slug) = {} => (last'.result = "404" /\ UNCHANGED tables)
            /\ (\E s \in StudyBySlug(slug) : s.ownerId # r)
                 => (last'.result = "403" /\ UNCHANGED tables)]_vars

\* A researcher who does not own the study was refused while the study had
\* enrollments and audit entries to lose.
C20_Witness ==
  /\ last.result = "403"
  /\ \E s \in study, e \in enrollment, a \in auditLog :
       e.studyId = s.id /\ a.studyId = s.id /\ a.action = "ENROLLED"

\* Every row that names a study names one that exists, and every choice names
\* a Consent row that exists.
NoOrphans ==
  /\ \A x \in dataCategory \cup enrollment \cup consent \cup auditLog \cup upload :
       \E s \in study : s.id = x.studyId
  /\ \A ch \in consentChoice : \E c \in consent : c.id = ch.consentId

\* The rows of every table that belong to a study.
RowsOfStudy(studyId) ==
  << {x \in study : x.id = studyId},
     {x \in dataCategory \cup enrollment \cup consent \cup auditLog \cup upload : x.studyId = studyId},
     {ch \in consentChoice : \E c \in consent : c.id = ch.consentId /\ c.studyId = studyId} >>

\* C18: a delete that went through leaves no row of the study in any table, a
\* delete that failed removes nothing, and whatever requests overlap it no row
\* is ever left naming a study that is gone.
C18_DeleteAtomic ==
  [][/\ NoOrphans'
     /\ \A q \in inflight \ inflight' :
          q.op = "delete" =>
            IF last'.result = "redirect"
            THEN RowsOfStudy(q.sid)' = << {}, {}, {} >>
            ELSE UNCHANGED tables]_vars

\* A delete went through while an enroll request for the study was between its
\* store calls: the request had written its Enrollment row, the delete removed
\* it, and the request's audit append then failed on the key to Study.
C18_Witness ==
  /\ last = [op |-> "enroll", result |-> "P2003"]
  /\ study = {} /\ inflight = {}
  /\ nextId = 7

\* C13: once a regenerate has been answered, the code the study had before it
\* is refused by the join-code gate of that study, whatever edit and enroll
\* requests ran alongside.
C13_OldCodeRefused ==
  \A q \in inflight :
    (q.op = "regenerate" /\ q.pc = "done") =>
      \A s \in study :
        (s.id = q.sid /\ s.status = "invite") => InvalidJoinCode(s, q.read)

\* C27: the categories a call of ensureThreeCategories creates carry default
\* names the study's categories do not use yet, so no created category shares
\* its name with another category of the study.
C27_FirstUnusedDefaults ==
  last.op = "ensure" =>
    \A a \in dataCategory, b \in dataCategory :
      (a.studyId = b.studyId /\ a.id # b.id /\ a.id >= 10) => a.name # b.name

\* C25: with requests handled one at a time, every audit entry's prevHash is
\* the entryHash of the entry appended to its study just before it, and null
\* for the first entry of the study, equal creation timestamps included.
C25_PrevIsLastAppended ==
  \A a \in auditLog :
    LET earlier == {b \in StudyEntries(a.studyId) : b.id < a.id}
    IN IF earlier = {} THEN a.prevHash = None
       ELSE \E b \in earlier : /\ \A c \in earlier : c.id <= b.id
                               /\ a.prevHash = b.entryHash

\* C21: while a study exists its audit entries stay, field for field: every
\* entry of a study that is still there after a step is in the log after it.
C21_AppendOnly ==
  [][\A a \in auditLog : (\E s \in study' : s.id = a.studyId) => a \in auditLog']_vars

\* An edit was appended to a log that already held the creation and an
\* unenroll.
C21_Witness ==
  /\ last = [op |-> "edit", result |-> "redirect"]
  /\ {a.action : a \in auditLog} = {"STUDY_CREATED", "UNENROLLED", "STUDY_UPDATED"}

\* The actions an operation's audit entry can carry.
AuditActionOf(op, hadPrev) ==
  CASE op = "enroll" -> "ENROLLED"
    [] op = "unenroll" -> "UNENROLLED"
    [] op = "consent" -> IF hadPrev THEN "CONSENT_EDITED" ELSE "CONSENT_GIVEN"
    [] op = "withdraw" -> "WITHDRAWN"

\* C22: an enroll, unenroll, consent or withdraw that went through appends
\* exactly one entry, of its own action and actor, to the log of its study,
\* also when the enrollment existed already or there was none to remove; one
\* refused as not found or for its code appends none.
C22_OneEntryPerOperation ==
  [][last'.op \in {"enroll", "unenroll", "consent", "withdraw"} =>
       IF last'.result \in {"404", "invalid_code"}
       THEN auditLog' = auditLog
       ELSE /\ auditLog \subseteq auditLog'
            /\ Cardinality(auditLog' \ auditLog) = 1
            /\ \A a \in auditLog' \ auditLog :
                 /\ \E s \in study : s.id = a.studyId /\ s.slug = "sleep-study"
                 /\ a.action = AuditActionOf(last'.op, HasPrev(consent, a.studyId, a.actorId))]_vars

\* An unenroll of a participant who was never enrolled, after the enroll of
\* another: the Enrollment row is still there and the log has both entries.
C22_Witness ==
  /\ last = [op |-> "unenroll", result |-> "redirect"]
  /\ Cardinality(enrollment) = 1
  /\ \E a \in auditLog, e \in enrollment :
       a.action = "UNENROLLED" /\ a.actorId # e.participantId
  /\ Cardinality({a \in auditLog : a.action = "ENROLLED"}) = 1

\* C23: the insert of an addAudit call persists its entry with the prevHash
\* the call read, whether or not the study's log already holds an entry with
\* that prevHash; two calls that both read before either inserts leave a fork.
C23_SecondInsertPersists ==
  [][\A q \in inflight \ inflight' :
       (q.pc = "insert" /\ \E s \in study : s.id = q.sid) =>
         /\ auditLog \subseteq auditLog'
         /\ \E a \in auditLog' \ auditLog :
              a.studyId = q.sid /\ a.actorId = q.who /\ a.prevHash = q.prev]_vars

\* Two entries of one study carry the same prevHash.
C23_Witness ==
  \E a \in auditLog, b \in auditLog :
    a.id # b.id /\ a.studyId = b.studyId /\ a.prevHash = b.prevHash /\ a.prevHash # None

\* C24: the transaction of a consent or withdraw request persists its Consent
\* row under the version the request computed, whether or not the pair has a
\* row of that version already; two requests of one participant that both
\* read before either writes leave two rows of one version.
C24_SameVersionPersists ==
  [][\A q \in inflight \ inflight' :
       q.op \in {"consent", "withdraw"} =>
         /\ consent \subseteq consent'
         /\ \E c \in consent' \ consent :
              c.studyId = q.sid /\ c.participantId = q.who /\ c.version = q.version]_vars

\* Two Consent rows of one participant and study carry the same version, one
\* of them a withdrawal.
C24_Witness ==
  \E c \in consent, w \in consent :
    /\ c.id # w.id /\ c.studyId = w.studyId /\ c.participantId = w.participantId
    /\ c.version = w.version
    /\ c.withdrawnAt = None /\ w.withdrawnAt # None

\* C28: every Consent row has exactly one choice for each category of its
\* study and none for any other id, whatever cat_ fields the body carried.
C28_ChoicesAreStudyCategories ==
  \A c \in consent :
    LET chs == ChoicesOf(consentChoice, c.id)
        cats == {cat \in dataCategory : cat.studyId = c.studyId}
    IN /\ {ch.categoryId : ch \in chs} = {cat.id : cat \in cats}
       /\ Cardinality(chs) = Cardinality(cats)

\* A consent was saved for a study with one required category: the row's
\* choices allow the required category and deny the two others.
C28_Witness ==
  /\ last = [op |-> "consent", result |-> "saved"]
  /\ \E c \in consent :
       /\ c.withdrawnAt = None
       /\ Cardinality({ch \in ChoicesOf(consentChoice, c.id) : ch.allowed}) = 1
       /\ \A ch \in ChoicesOf(consentChoice, c.id) :
            ch.allowed => \E cat \in dataCategory : cat.id = ch.categoryId /\ cat.required

C29_WithdrawnAtIffWithdraw ==
  [][\A c \in consent' \ consent :
       LET withdrawal == JsonGet(c.receiptJson, "withdrawal")
           effectiveAt == JsonGet(c.receiptJson, "effective_at")
       IN /\ c.withdrawnAt # None <=> last'.op = "withdraw"
          /\ withdrawal = None <=> c.withdrawnAt = None
          /\ withdrawal # None => withdrawal = effectiveAt]_vars

\* A withdrawal was recorded after the clock had moved: its row carries
\* withdrawnAt and a receipt whose withdrawal member is that moment.
C29_Witness ==
  /\ last = [op |-> "withdraw", result |-> "saved"]
  /\ \E c \in consent :
       /\ c.withdrawnAt = Some(1)
       /\ JsonGet(c.receiptJson, "withdrawal") = toISOString(1)

\* C26: an edit, a regenerate and a join by code that pass their checks each
\* append an audit entry that carries an entryHash and whose prevHash is the
\* entryHash of the study's latest entry.
C26_EveryWriteChained ==
  [][(last'.op \in {"edit", "regenerate", "join"} /\ last'.result \notin {"400", "403", "404"}) =>
       \E a \in auditLog' \ auditLog :
         /\ a.entryHash # None
         /\ a.prevHash \in LatestEntryHashes(auditLog, a.studyId)]_vars

\* C34: a study whose status is not invite has no join code, and an invite
\* study has a non-empty one, also when an edit and a regenerate of the study
\* run alongside each other.
C34_CodeIffInvite ==
  \A s \in study :
    /\ s.status # "invite" => s.joinCode = Null
    /\ s.status = "invite" => s.joinCode \notin {Null, ""}

\* C39: the entry a consent request appends is CONSENT_GIVEN exactly when the
\* Consent row it created has version 1, which is exactly when the pair had no
\* row before, withdrawals included, and is CONSENT_EDITED otherwise; the
\* version in the entry's details is the row's version.
C39_GivenIffFirstVersion ==
  [][last'.op = "consent" =>
       \A c \in consent' \ consent : \A a \in auditLog' \ auditLog :
         /\ c.version = 1 <=> PairRows(consent, c.studyId, c.participantId) = {}
         /\ a.action = (IF c.version = 1 THEN "CONSENT_GIVEN" ELSE "CONSENT_EDITED")
         /\ JsonGet(a.details, "version") = c.version]_vars

\* A consent recorded after a withdrawal of the same participant: version 2,
\* logged as CONSENT_EDITED.
C39_Witness ==
  /\ last = [op |-> "consent", result |-> "saved"]
  /\ \E w \in consent, c \in consent, a \in auditLog :
       /\ w.withdrawnAt # None /\ w.version = 1
       /\ c.withdrawnAt = None /\ c.version = 2
       /\ c.studyId = w.studyId /\ c.participantId = w.participantId
       /\ a.action = "CONSENT_EDITED" /\ a.actorId = c.participantId

\* C32: an edit that answers "Failed to update study." has committed
\* nothing: the Study rows and the category rows there were before the request
\* are as they were.
C32_FailedEditCommitsNothing ==
  [][last' = [op |-> "edit", result |-> "failed"] =>
       /\ study' = study
       /\ dataCategory \subseteq dataCategory']_vars

\* ------------------------------------- overlapping ensureThreeCategories

\* toCreate: the defaults for positions cats.length .. 2, as createMany
\* inserts them.
toCreate(n, studyId, firstId, createdAt) ==
  { [ id |-> firstId + (i - n - 1), studyId |-> studyId,
      name |-> EnsureDefaults[i].name, required |-> EnsureDefaults[i].required,
      createdAt |-> createdAt ] : i \in (n + 1)..3 }

\* A call between its findMany and its createMany: version is cats.length.
EnsureRequest(rid, studyId, n) ==
  [ rid |-> rid, op |-> "ensure", who |-> "", sid |-> studyId, pc |-> "create",
    found |-> FALSE, prev |-> None, hashedAt |-> 0, read |-> "", wrote |-> "", version |-> n,
    action |-> "", details |-> <<>> ]

\* findMany and the early return on three or more rows.
EnsureFind ==
  /\ nOps < MaxOps
  /\ \E s \in study :
       LET n == Cardinality({c \in dataCategory : c.studyId = s.id}) IN
       IF n >= 3
       THEN /\ Done("ensure", "returned")
            /\ UNCHANGED << tables, nextId, now >>
       ELSE /\ inflight' = inflight \cup {EnsureRequest(nOps, s.id, n)}
            /\ nOps' = nOps + 1
            /\ UNCHANGED << tables, nextId, now, last >>

\* createMany of what the call found missing, and the closing findMany.
EnsureCreateMany(q) ==
  /\ q.op = "ensure" /\ q.pc = "create"
  /\ dataCategory' = dataCategory \cup toCreate(q.version, q.sid, nextId, now)
  /\ nextId' = nextId + (3 - q.version)
  /\ inflight' = inflight \ {q}
  /\ last' = [op |-> "ensure", result |-> "returned"]
  /\ UNCHANGED << study, enrollment, consent, consentChoice, auditLog, upload, now, nOps >>

NextEnsureOverlap ==
  \/ EnsureFind
  \/ \E q \in inflight : EnsureCreateMany(q)

SpecEnsureOverlap == InitEnsure /\ [][NextEnsureOverlap]_vars

\* C36: once the overlapping ensureThreeCategories calls of a study that had
\* fewer than three categories have returned, the study has exactly three.
C36_OverlapEndsWithThree ==
  (inflight = {} /\ \E c \in dataCategory : c.studyId = 1 /\ c.id >= 10) =>
    Cardinality({c \in dataCategory : c.studyId = 1}) = 3

\* ------------------------------------------------------ short join codes

\* Create forms, one of them an invite study with a one-letter code: the
\* schema takes any string for joinCode.
ShortCodeForms ==
  CreateForms \cup
  { [owner |-> "r1", title |-> "Sleep Study", status |-> "invite", joinCode |-> "x",
     req |-> <<FALSE, FALSE, FALSE>>] }

NextJoin ==
  \/ \E form \in ShortCodeForms, gen \in GenCodes : StudyCreate(form, gen)
  \/ \E p \in Participants, slug \in Slugs, code \in RawCodes : Enroll(p, slug, code)
  \/ \E p \in Participants, code \in RawCodes : JoinByCode(p, code)
  \/ \E p \in Participants, slug \in Slugs : Unenroll(p, slug)

SpecJoin == Init /\ [][NextJoin]_vars

\* C37: a code the study-page enroll of an invite study accepts is accepted
\* by join-by-code for that study, and join-by-code accepts a code for a study
\* only if the study is not a draft and its stored code is the supplied one
\* trimmed and upper-cased.
C37_JoinAcceptsWhatEnrollAccepts ==
  \A s \in study, raw \in RawCodes :
    /\ (s.status = "invite" /\ ~InvalidJoinCode(s, raw)) => JoinAccepts(s, raw)
    /\ JoinAccepts(s, raw) =>
         s.status # "draft" /\ s.joinCode = ToUpperCase(Trim(OrEmptyString(raw)))

\* ---------------------------------------------------------------- clone

\* A Study table without the unique index on slug.
StudyAcceptsAnySlug(rows, row) == \A s \in rows : s.id # row.id

\* What the Study table asks of a new row: its primary key and the unique
\* index Study_slug_key; a row that fails is rejected with P2002.
StudyAccepts(rows, row) == \A s \in rows : s.id # row.id /\ s.slug # row.slug

\* req.session.user.email
SessionEmail(r) == r \o "@example.org"

\* Slugs a clone or edit request can name: the created study and its clone.
CloneSlugs == Slugs \cup {"sleep-study-copy"}

\* `${slugify(base)}-${n}`
SlugCandidate(base, n) == slugify(base) \o "-" \o ToString(n)

\* A clone request after its lookup and checks: details holds src and
\* src.categories as read, wrote the base `${src.slug}-copy`, read the slug s
\* uniqueSlug tries next and version its counter n.
CloneRequest(rid, r, src, cats) ==
  [ rid |-> rid, op |-> "clone", who |-> r, sid |-> src.id, pc |-> "slug",
    found |-> FALSE, prev |-> None, hashedAt |-> 0, read |-> slugify(src.slug \o "-copy"),
    wrote |-> src.slug \o "-copy", version |-> 1, action |-> "STUDY_CLONED_FROM",
    details |-> <<src, cats>> ]

\* POST /researcher/templates/:slug/clone up to uniqueSlug: the lookup of the
\* template and the two rejections.
CloneBegin(r, slug) ==
  /\ nOps < MaxOps
  /\ IF StudyBySlug(slug) = {} \/ \E s \in StudyBySlug(slug) : s.ownerId = r
     THEN Refuse("clone", "404")
     ELSE LET src == CHOOSE x \in StudyBySlug(slug) : TRUE IN
          IF src.status \notin {"public", "invite"}
          THEN Refuse("clone", "403")
          ELSE /\ inflight' = inflight \cup
                    {CloneRequest(nOps, r, src, CategoriesAsc(dataCategory, src.id))}
               /\ nOps' = nOps + 1
               /\ UNCHANGED << tables, nextId, now, last >>

\* A loop body that tries the slug it has just found taken once more.
SameTry(q) == q

\* The loop body of uniqueSlug: s = `${slugify(base)}-${n++}`
NextTry(q) ==
  [q EXCEPT !.read = SlugCandidate(q.wrote, q.version), !.version = q.version + 1]

\* One evaluation of the while condition of uniqueSlug: a taken slug moves on
\* to the next candidate, a free one is returned.
SlugCheck(q) ==
  /\ q.op = "clone" /\ q.pc = "slug"
  /\ inflight' = (inflight \ {q}) \cup
       { IF StudyBySlug(q.read) # {}
         THEN NextTry(q)
         ELSE [q EXCEPT !.pc = "create"] }
  /\ UNCHANGED << tables, nextId, now, nOps, last >>

\* A clone that takes status and join code over from its source.
ClonedStudyAsSource(id, r, newSlug, src) ==
  [ id |-> id, ownerId |-> r, slug |-> newSlug,
    title |-> src.title \o " (copy)", contactEmail |-> SessionEmail(r),
    retentionDefaultDays |-> src.retentionDefaultDays,
    status |-> src.status, joinCode |-> src.joinCode, version |-> 1 ]

\* data of the study.create of the clone handler, without the categories.
ClonedStudy(id, r, newSlug, src) ==
  [ id |-> id, ownerId |-> r, slug |-> newSlug,
    title |-> src.title \o " (copy)", contactEmail |-> SessionEmail(r),
    retentionDefaultDays |-> src.retentionDefaultDays,
    status |-> "draft", joinCode |-> Null, version |-> 1 ]

\* The try block of the clone handler: study.create with the copied
\* categories, addAudit, ensureThreeCategories; a rejected create answers 500.
CloneWrite(q) ==
  /\ q.op = "clone" /\ q.pc = "create"
  /\ inflight' = inflight \ {q}
  /\ LET src == q.details[1]
         srcCats == q.details[2]
         fallbackCats == IF Len(srcCats) > 0 THEN srcCats ELSE EnsureDefaults
         k == Len(fallbackCats)
         created == ClonedStudy(nextId, q.who, q.read, src)
         copies == { [ id |-> nextId + i, studyId |-> nextId, name |-> fallbackCats[i].name,
                       required |-> fallbackCats[i].required, createdAt |-> now ] : i \in 1..k }
         ensured == ensureThreeCategories(dataCategory \cup copies, nextId, nextId + k + 1, now)
         made == Cardinality(ensured) - Cardinality(dataCategory \cup copies)
     IN IF ~StudyAccepts(study, created)
        THEN /\ last' = [op |-> "clone", result |-> "500"]
             /\ UNCHANGED << tables, nextId, now, nOps >>
        ELSE /\ study' = study \cup {created}
             /\ dataCategory' = ensured
             /\ addAudit(nextId, "researcher", q.who, "STUDY_CLONED_FROM",
                         << <<"fromSlug", src.slug>>, <<"fromOwner", src.ownerId>> >>, k + 1 + made)
             /\ last' = [op |-> "clone", result |-> "redirect"]
             /\ UNCHANGED << enrollment, consent, consentChoice, upload, nOps >>

\* An edit form carrying the category ids of another study.
ForeignIdForms ==
  { [title |-> "Sleep Study (copy)", status |-> "public", joinCode |-> Undefined, ids |-> "foreign",
     names |-> <<"Mine 1", "Mine 2", "Mine 3">>, req |-> <<TRUE, TRUE, TRUE>>] }

\* Clone requests interleaved at their store calls, between creates, edits
\* and regenerates.
NextClone ==
  \/ \E form \in CreateForms, gen \in GenCodes : StudyCreate(form, gen)
  \/ \E r \in Researchers, slug \in CloneSlugs : CloneBegin(r, slug)
  \/ \E q \in inflight : SlugCheck(q)
  \/ \E q \in inflight : CloneWrite(q)
  \/ \E r \in Researchers, slug \in CloneSlugs, form \in OwnIdForms \cup ForeignIdForms, gen \in GenCodes :
       StudyEditStore(r, slug, form, gen, "none")
  \/ \E r \in Researchers, slug \in CloneSlugs, gen \in GenCodes : Regenerate(r, slug, gen)

SpecClone == Init /\ [][NextClone]_vars

\* Every started clone request is given its next store call.
SpecCloneLive ==
  /\ Init /\ [][NextClone]_vars
  /\ WF_vars(\E q \in inflight : SlugCheck(q))
  /\ WF_vars(\E q \in inflight : CloneWrite(q))

\* C31: no two studies share a slug, and a study keeps the slug it was created
\* with through edits (of its title too), regenerates and clones, also when two
\* clone requests that computed the same slug overlap.
C31_SlugUniqueAndKept ==
  [][/\ \A a \in study' : \A b \in study' : a.slug = b.slug => a.id = b.id
     /\ \A a \in study : \A b \in study' : a.id = b.id => a.slug = b.slug]_vars

\* Two clone requests computed the same slug, and the create of the second
\* was rejected.
C31_Witness ==
  /\ last = [op |-> "clone", result |-> "500"]
  /\ inflight = {}
  /\ \E a \in study, b \in study : a.slug = "sleep-study" /\ b.slug = "sleep-study-copy"

\* C33: every study has at least three categories.
C33_AtLeastThreeCategories ==
  \A s \in study : Cardinality({c \in dataCategory : c.studyId = s.id}) >= 3

\* A created study and its clone, both with three categories.
C33_Witness ==
  /\ Cardinality(study) = 2
  /\ \A s \in study : Cardinality({c \in dataCategory : c.studyId = s.id}) = 3
  /\ \E s \in study : s.slug = "sleep-study-copy"

\* C35: a committed edit of study S leaves every Study row but S's and every
\* category of another study as it was, whatever category ids the form carries.
C35_EditTouchesOwnRowsOnly ==
  [][\A a \in auditLog' \ auditLog :
       a.action = "STUDY_UPDATED" =>
         /\ \A s \in study : s.id # a.studyId => s \in study'
         /\ \A c \in dataCategory : c.studyId # a.studyId => c \in dataCategory']_vars

\* C38: a clone that answers with the redirect has created exactly one study,
\* a draft without join code owned by the cloner, with one new category per
\* category of the source as read, and has changed no other row; a clone of
\* one's own study or of a draft, and one whose create is rejected, changes no
\* table.
C38_CloneFrame ==
  [][/\ \A q \in inflight \ inflight' :
          (q.op = "clone" /\ q.pc = "create" /\ last'.result = "redirect") =>
            /\ \E n \in study' \ study :
                 /\ study' = study \cup {n}
                 /\ n.status = "draft" /\ n.joinCode = Null /\ n.ownerId = q.who
                 /\ \A s \in study : s.id # n.id
                 /\ \A c \in dataCategory' \ dataCategory :
                      c.studyId = n.id /\ \A d \in dataCategory : d.id # c.id
                 /\ Cardinality(dataCategory' \ dataCategory) = Len(q.details[2])
                 /\ \A i \in 1..Len(q.details[2]) : \E c \in dataCategory' \ dataCategory :
                      c.name = q.details[2][i].name /\ c.required = q.details[2][i].required
                 /\ \A a \in auditLog' \ auditLog : a.studyId = n.id
            /\ dataCategory \subseteq dataCategory' /\ auditLog \subseteq auditLog'
            /\ UNCHANGED << enrollment, consent, consentChoice, upload >>
     /\ (last'.op = "clone" /\ last'.result \in {"404", "403", "500"}) => UNCHANGED tables]_vars

\* r2 cloned r1's study after r1 had edited it: the clone is a draft of r2
\* carrying the edited category names.
C38_Witness ==
  /\ last = [op |-> "clone", result |-> "redirect"]
  /\ \E src \in study, n \in study :
       /\ src.slug = "sleep-study" /\ src.ownerId = "r1"
       /\ n.slug = "sleep-study-copy" /\ n.ownerId = "r2" /\ n.status = "draft"
       /\ \E c \in dataCategory : c.studyId = n.id /\ c.name = "E-mail"

====
